---- MODULE Spec2Model ----
(***************************************************************************)
(* Model of the product reference-data services of gcamaral2105/hq:       *)
(* the category / mine / subtype services and repositories, the settings  *)
(* hub's direct delete paths, the service-level cache, the repository     *)
(* CacheMixin, SearchMixin.search and RepositoryMixin.get_or_create.       *)
(***************************************************************************)
EXTENDS Integers, Sequences, FiniteSets, TLC

\* ------------------------------------------------------------------------
\* Bounds of the model
\* ------------------------------------------------------------------------
MaxCategories == 2
MaxMines == 1
MaxSubtypes == 2
MaxBulk == 2

\* ------------------------------------------------------------------------
\* Strings: names are TLA+ strings; Len, Head, Tail, SubSeq and \o apply.
\* ------------------------------------------------------------------------
Lower == {"a","b","c","d","e","f","g","h","i","j","k","l","m",
          "n","o","p","q","r","s","t","u","v","w","x","y","z"}
Upper == {"A","B","C","D","E","F","G","H","I","J","K","L","M",
          "N","O","P","Q","R","S","T","U","V","W","X","Y","Z"}
Digits == {"0","1","2","3","4","5","6","7","8","9"}

IsSpace(ch) == ch = " "

\* str.strip() as used by the repositories: (name or "").strip()
RECURSIVE LStrip(_)
LStrip(s) == IF Len(s) > 0 /\ IsSpace(Head(s)) THEN LStrip(Tail(s)) ELSE s

RECURSIVE RStrip(_)
RStrip(s) ==
    IF Len(s) > 0 /\ IsSpace(SubSeq(s, Len(s), Len(s)))
    THEN RStrip(SubSeq(s, 1, Len(s) - 1))
    ELSE s

strip(s) == RStrip(LStrip(s))

\* StringUtils.clean_whitespace: trims and collapses runs of whitespace.
RECURSIVE Collapse(_)
Collapse(s) ==
    IF Len(s) < 2 THEN s
    ELSE IF IsSpace(Head(s)) /\ IsSpace(Head(Tail(s)))
         THEN Collapse(Tail(s))
         ELSE Head(s) \o Collapse(Tail(s))

clean_whitespace(s) == Collapse(strip(s))

\* p matched at the start of k only
Contains_prefix(k, p) == Len(p) <= Len(k) /\ SubSeq(k, 1, Len(p)) = p

\* k contains p as a substring (Python: p in k)
RECURSIVE Contains(_, _)
Contains(k, p) ==
    IF Len(p) > Len(k) THEN FALSE
    ELSE IF SubSeq(k, 1, Len(p)) = p THEN TRUE
    ELSE Contains(Tail(k), p)

\* ------------------------------------------------------------------------
\* Field rules of the services (_rules) and the validator applying them
\* ------------------------------------------------------------------------
NameMinLength == 3
NameMaxLength == 100
IdMinValue == 1

\* the character class of the name pattern ^[A-Za-z0-9\s\-_...]+$
PatternChars == Lower \cup Upper \cup Digits \cup {" ", "-", "_"}
PatternChar(ch) == ch \in PatternChars

RECURSIVE MatchesPattern(_)
MatchesPattern(s) ==
    IF Len(s) = 0 THEN TRUE
    ELSE PatternChar(Head(s)) /\ MatchesPattern(Tail(s))

Err(tag, item, id) == [tag |-> tag, item |-> item, id |-> id]

\* the name rules without min_length
validate_name_no_min(name, item) ==
    IF Len(name) = 0 THEN {Err("name_required", item, 0)}
    ELSE (IF Len(name) > NameMaxLength THEN {Err("name_max_length", item, 0)} ELSE {})
         \cup (IF ~MatchesPattern(name) THEN {Err("name_pattern", item, 0)} ELSE {})

\* errors of the "name" field of item number `item` (0: a single request)
validate_name(name, item) ==
    IF Len(name) = 0 THEN {Err("name_required", item, 0)}
    ELSE (IF Len(name) < NameMinLength THEN {Err("name_min_length", item, 0)} ELSE {})
         \cup (IF Len(name) > NameMaxLength THEN {Err("name_max_length", item, 0)} ELSE {})
         \cup (IF ~MatchesPattern(name) THEN {Err("name_pattern", item, 0)} ELSE {})

\* errors of an integer id field with min_value 1
validate_id(tag, v, item) ==
    IF v < IdMinValue THEN {Err(tag, item, v)} ELSE {}

\* ------------------------------------------------------------------------
\* State
\* ------------------------------------------------------------------------
VARIABLES
    categories,   \* product_category table: id -> name
    mines,        \* mine table: id -> name
    subtypes,     \* product_subtype table: id -> [name, category_id, mine_id]
    res,          \* what the last call returned to its caller
    catCache,     \* ProductCategoryService cache: key -> [data, ts, ttl]
    mineCache,    \* MineService cache
    subCache,     \* ProductSubtypeService cache
    now,          \* clock, in seconds
    entities,     \* table of a repository built from the mixins: id -> [name, code]
    ret,          \* what the last call of a mixin method returned
    repoCache,    \* CacheMixin._cache: key -> [data, ts]
    inflight,     \* the create_subtype call of a second worker that has
                  \* validated its payload and not yet written
    scenario,     \* a ProductionScenario and what its last validate() returned
    pending       \* per worker, the service call it is in the middle of

storeVars == <<categories, mines, subtypes>>
cacheVars == <<catCache, mineCache, subCache>>
serviceVars == <<categories, mines, subtypes, res, catCache, mineCache, subCache,
                 inflight, scenario, pending>>
mixinVars == <<entities, ret, repoCache>>
vars == <<categories, mines, subtypes, res, catCache, mineCache, subCache, now,
          entities, ret, repoCache, inflight, scenario, pending>>

\* ------------------------------------------------------------------------
\* Tables of the store
\* ------------------------------------------------------------------------
EmptyTable == [i \in {} |-> 0]

SetMax(S) == CHOOSE x \in S : \A y \in S : y <= x

\* integer primary key assigned by the store on insert
NewId(tab) == IF DOMAIN tab = {} THEN 1 ELSE SetMax(DOMAIN tab) + 1

Insert(tab, row) == [i \in DOMAIN tab \cup {NewId(tab)} |->
                        IF i \in DOMAIN tab THEN tab[i] ELSE row]

Remove(tab, id) == [i \in DOMAIN tab \ {id} |-> tab[i]]

SubRow(name, c, m) == [name |-> name, category_id |-> c, mine_id |-> m]

\* a table without its unique constraint
UniqueOk_unconstrained(tab, row, self) == TRUE

\* unique=True on product_category.name and mine.name;
\* uq_subtype_category_mine on product_subtype: the row is the key.
UniqueOk(tab, row, self) == \A i \in DOMAIN tab : i = self \/ tab[i] # row

\* relationship ProductCategory.subtypes / Mine.subtypes
CategorySubtypes(c) == {s \in DOMAIN subtypes : subtypes[s].category_id = c}
MineSubtypes(m) == {s \in DOMAIN subtypes : subtypes[s].mine_id = m}

\* outcome of a repository call: the exception raised ("" for none), the
\* table afterwards and the id of the row concerned
Done(tab, id) == [exc |-> "", tab |-> tab, id |-> id]
Raise(exc, tab) == [exc |-> exc, tab |-> tab, id |-> 0]

\* BaseRepository.create / update / delete: one committed statement each
repo_create(tab, row) ==
    IF UniqueOk(tab, row, 0) THEN Done(Insert(tab, row), NewId(tab))
    ELSE Raise("IntegrityError", tab)

repo_update(tab, id, row) ==
    IF UniqueOk(tab, row, id) THEN Done([tab EXCEPT ![id] = row], id)
    ELSE Raise("IntegrityError", tab)

\* a before_delete hook that never objects
check_subtypes_on_delete_never(dependents) == FALSE

\* before_delete hooks: _check_subtypes_on_delete / _validate_deletion raise
\* when the entity still has sub-types; _validate_delete (sub-type) passes
check_subtypes_on_delete(dependents) == dependents # {}

repo_delete(tab, id, dependents) ==
    IF check_subtypes_on_delete(dependents) THEN Raise("IntegrityError", tab)
    ELSE Done(Remove(tab, id), id)

\* BaseRepository.bulk_create: rows are inserted in payload order; a row the
\* store rejects aborts the call, and the rows inserted before it are either
\* rolled back with it or already committed (keep)
RECURSIVE repo_bulk_create(_, _, _, _)
repo_bulk_create(tab0, tab, rows, keep) ==
    IF rows = <<>> THEN Done(tab, 0)
    ELSE IF UniqueOk(tab, Head(rows), 0)
         THEN repo_bulk_create(tab0, Insert(tab, Head(rows)), Tail(rows), keep)
         ELSE Raise("IntegrityError", IF keep THEN tab ELSE tab0)

\* a name check that counts the row being updated as well
name_exists_any(tab, name, exclude_id) == \E i \in DOMAIN tab : tab[i] = name

\* name_exists / combination_exists: exclude_id is ignored when falsy
name_exists(tab, name, exclude_id) ==
    \E i \in DOMAIN tab : tab[i] = name /\ (exclude_id = 0 \/ i # exclude_id)

combination_exists(name, c, m, exclude_id) ==
    \E i \in DOMAIN subtypes :
        /\ subtypes[i] = SubRow(name, c, m)
        /\ (exclude_id = 0 \/ i # exclude_id)

\* create_with_validation without its name_exists check
create_with_validation_unchecked(tab, name) == repo_create(tab, strip(name))

\* Product{Category,Mine}Repository.create_with_validation
create_with_validation(tab, name) ==
    LET nm == strip(name) IN
    IF name_exists(tab, nm, 0) THEN Raise("DuplicateError", tab)
    ELSE repo_create(tab, nm)

update_with_validation(tab, id, name) ==
    LET nm == strip(name) IN
    IF id \notin DOMAIN tab THEN Done(tab, 0)
    ELSE IF name_exists(tab, nm, id) THEN Raise("DuplicateError", tab)
    ELSE repo_update(tab, id, nm)

delete_with_validation(tab, id, dependents) ==
    IF id \notin DOMAIN tab THEN Done(tab, 0)
    ELSE repo_delete(tab, id, dependents)

\* ProductSubtypeRepository.create_with_validation / update_with_validation
subtype_create_with_validation(name, c, m) ==
    LET nm == strip(name) IN
    IF combination_exists(nm, c, m, 0) THEN Raise("DuplicateError", subtypes)
    ELSE repo_create(subtypes, SubRow(nm, c, m))

subtype_update_with_validation(id, name, c, m) ==
    LET nm == strip(name) IN
    IF id \notin DOMAIN subtypes THEN Done(subtypes, 0)
    ELSE IF combination_exists(nm, c, m, id) THEN Raise("DuplicateError", subtypes)
    ELSE repo_update(subtypes, id, SubRow(nm, c, m))

\* the upfront loop of bulk_create_categories / bulk_create_mines: the first
\* item that has no name or names an existing row raises
RECURSIVE bulk_precheck(_, _)
bulk_precheck(tab, names) ==
    IF names = <<>> THEN ""
    ELSE IF Len(strip(Head(names))) = 0 THEN "ValidationError"
    ELSE IF name_exists(tab, strip(Head(names)), 0) THEN "DuplicateError"
    ELSE bulk_precheck(tab, Tail(names))

StripAll(names) == [i \in 1..Len(names) |-> strip(names[i])]

bulk_create_names(tab, names, keep) ==
    LET exc == bulk_precheck(tab, names) IN
    IF exc # "" THEN Raise(exc, tab)
    ELSE repo_bulk_create(tab, tab, StripAll(names), keep)

\* the upfront loop of bulk_create_subtypes
RECURSIVE subtype_bulk_precheck(_)
subtype_bulk_precheck(rows) ==
    IF rows = <<>> THEN ""
    ELSE LET r == Head(rows) IN
         IF Len(strip(r.name)) = 0 \/ r.category_id = 0 \/ r.mine_id = 0
         THEN "ValidationError"
         ELSE IF combination_exists(strip(r.name), r.category_id, r.mine_id, 0)
         THEN "DuplicateError"
         ELSE subtype_bulk_precheck(Tail(rows))

bulk_create_subtype_rows(rows, keep) ==
    LET exc == subtype_bulk_precheck(rows) IN
    IF exc # "" THEN Raise(exc, subtypes)
    ELSE repo_bulk_create(subtypes, subtypes,
            [i \in 1..Len(rows) |->
                SubRow(strip(rows[i].name), rows[i].category_id, rows[i].mine_id)],
            keep)

\* ------------------------------------------------------------------------
\* Result envelope (BaseService.ok / error / validation_error) and
\* safe_repository_operation
\* ------------------------------------------------------------------------
NoData == [kind |-> "none"]

Envelope(op, kind, success, code, cause, errors, id, c, m, data) ==
    [op |-> op, kind |-> kind, success |-> success, error_code |-> code,
     cause |-> cause, errors |-> errors, id |-> id, cat |-> c, mine |-> m,
     data |-> data]

\* ok(message, data, metadata): id is the entity id given in metadata,
\* cat / mine are the category_id / mine_id of the DTO in data (0: absent)
ok(op, id, c, m, data) == Envelope(op, "ok", TRUE, "", "", {}, id, c, m, data)

error(op, code) == Envelope(op, "error", FALSE, code, "", {}, 0, 0, 0, NoData)

validation_error(op, errors) ==
    Envelope(op, "validation", FALSE, "VALIDATION_ERROR", "", errors, 0, 0, 0, NoData)

\* an exception that reaches the caller of the service or controller method
raised(op, exc) == Envelope(op, "raised", FALSE, "", exc, {}, 0, 0, 0, NoData)

\* safe_repository_operation(name, fn): fn's envelope, or, when fn raised
\* exc, an error envelope tagged with a code specific to the operation
safe_repository_operation(op, exc, envelope) ==
    IF exc = "" THEN envelope
    ELSE Envelope(op, "error", FALSE, op \o "_failed", exc, {}, 0, 0, 0, NoData)

\* the exception of a repository call made while the store is failing
StoreFault(fault, exc) == IF fault THEN "OperationalError" ELSE exc

NoRes == Envelope("", "none", FALSE, "", "", {}, 0, 0, 0, NoData)

\* ------------------------------------------------------------------------
\* Service cache (BaseService._cache_get / _cache_set / clear_cache)
\* ------------------------------------------------------------------------
EmptyCache == [k \in {} |-> 0]

IdStr(i) == IF i = 0 THEN "None" ELSE ToString(i)

cache_valid(cache, key) ==
    key \in DOMAIN cache /\ now - cache[key].ts < cache[key].ttl

cache_set(cache, key, data, ttl) ==
    [k \in DOMAIN cache \cup {key} |->
        IF k = key THEN [data |-> data, ts |-> now, ttl |-> ttl] ELSE cache[k]]

\* clear_cache(pattern): drops every key that contains pattern
clear_cache(cache, pattern) ==
    [k \in {x \in DOMAIN cache : ~Contains(x, pattern)} |-> cache[k]]

\* hooks the services register in __init__
RegisteredHooks == {"before_create", "after_create", "before_update", "after_update"}

\* Product{Category,Mine,Subtype}Service._after_change
category_after_change(result, cache) ==
    IF ~result.success THEN cache
    ELSE clear_cache(clear_cache(clear_cache(clear_cache(cache,
            "categories_select"), "category_stats"),
            "category:" \o IdStr(result.id)),
            "category_subtypes:" \o IdStr(result.id))

mine_after_change(result, cache) ==
    IF ~result.success THEN cache
    ELSE clear_cache(clear_cache(clear_cache(clear_cache(cache,
            "mines_select"), "mine_stats"),
            "mine:" \o IdStr(result.id)),
            "mine_subtypes:" \o IdStr(result.id))

subtype_after_change(result, cache) ==
    IF ~result.success THEN cache
    ELSE LET c1 == clear_cache(clear_cache(clear_cache(cache,
                    "subtypes_select"), "subtype_stats"),
                    "subtype:" \o IdStr(result.id))
             c2 == IF result.cat # 0
                   THEN clear_cache(c1, "subtypes_by_cat:" \o IdStr(result.cat))
                   ELSE c1
         IN  IF result.mine # 0
             THEN clear_cache(c2, "subtypes_by_mine:" \o IdStr(result.mine))
             ELSE c2

\* the service hooks run after an operation of the given event, if any is
\* registered for it
category_hooks(event, result, cache) ==
    IF event \in RegisteredHooks THEN category_after_change(result, cache) ELSE cache

mine_hooks(event, result, cache) ==
    IF event \in RegisteredHooks THEN mine_after_change(result, cache) ELSE cache

subtype_hooks(event, result, cache) ==
    IF event \in RegisteredHooks THEN subtype_after_change(result, cache) ELSE cache

\* ------------------------------------------------------------------------
\* Inputs
\* ------------------------------------------------------------------------
NameInputs == {"ore", " ore", "bxt", "or", "o!e"}
SubtypeNameInputs == {"ore", "bxt", "or"}

\* ids that name a row to update or delete; one more than the table can hold
CategoryIds == 1..(MaxCategories + 1)
MineIds == 1..(MaxMines + 1)
SubtypeIds == 1..(MaxSubtypes + 1)

\* ids a sub-type payload may reference: 0 is below min_value
CategoryRefs == 0..(MaxCategories + 1)
MineRefs == 0..(MaxMines + 1)

\* calls made while the store is failing: one representative input each
Faulty(S, x) == (S \X {FALSE}) \cup {<<x, TRUE>>}

BulkNameInputs == {"ore", "bxt", "or", "   "}
BulkSubtypeInputs ==
    {SubRow("ore", 1, 1), SubRow("bxt", 1, 1), SubRow("or", 1, 1),
     SubRow("ore", MaxCategories + 1, MaxMines + 1)}

Payloads(S) == UNION {[1..n -> S] : n \in 0..MaxBulk}
NamePayloads == Payloads(BulkNameInputs)
SubtypePayloads == Payloads(BulkSubtypeInputs)

\* a rejected row can leave earlier rows behind only if the payload repeats a row
KeepChoices(p) ==
    IF \E i, j \in 1..Len(p) : i < j /\ p[i] = p[j] THEN BOOLEAN ELSE {FALSE}

\* ------------------------------------------------------------------------
\* ProductCategoryService
\* ------------------------------------------------------------------------
create_category(name, fault) ==
    LET op  == "create_category"
        val == validate_name(name, 0)
        out == create_with_validation(categories, clean_whitespace(name))
        r   == IF val # {} THEN validation_error(op, val)
               ELSE safe_repository_operation(op, StoreFault(fault, out.exc),
                        ok(op, out.id, 0, 0, NoData))
    IN  /\ r.success => out.id <= MaxCategories
        /\ categories' = IF r.success THEN out.tab ELSE categories
        /\ catCache' = category_hooks("after_create", r, catCache)
        /\ res' = r
        /\ UNCHANGED <<mines, subtypes, mineCache, subCache, now>>

\* update_category with the field rules applied before the row is looked up
update_category_validate_first(id, name, fault) ==
    LET op  == "update_category"
        val == validate_name(name, 0)
        out == update_with_validation(categories, id, clean_whitespace(name))
        r   == IF val # {} THEN validation_error(op, val)
               ELSE IF fault THEN safe_repository_operation(op, StoreFault(fault, ""), NoRes)
               ELSE IF id \notin DOMAIN categories THEN error(op, "CATEGORY_NOT_FOUND")
               ELSE safe_repository_operation(op, out.exc, ok(op, id, 0, 0, NoData))
    IN  /\ categories' = IF r.success THEN out.tab ELSE categories
        /\ catCache' = category_hooks("after_update", r, catCache)
        /\ res' = r
        /\ UNCHANGED <<mines, subtypes, mineCache, subCache, now>>

update_category(id, name, fault) ==
    LET op  == "update_category"
        val == validate_name(name, 0)
        out == update_with_validation(categories, id, clean_whitespace(name))
        r   == IF fault THEN safe_repository_operation(op, StoreFault(fault, ""), NoRes)
               ELSE IF id \notin DOMAIN categories THEN error(op, "CATEGORY_NOT_FOUND")
               ELSE IF val # {} THEN validation_error(op, val)
               ELSE safe_repository_operation(op, out.exc, ok(op, id, 0, 0, NoData))
    IN  /\ categories' = IF r.success THEN out.tab ELSE categories
        /\ catCache' = category_hooks("after_update", r, catCache)
        /\ res' = r
        /\ UNCHANGED <<mines, subtypes, mineCache, subCache, now>>

delete_category(id, fault) ==
    LET op  == "delete_category"
        out == delete_with_validation(categories, id, CategorySubtypes(id))
        r   == IF fault THEN safe_repository_operation(op, StoreFault(fault, ""), NoRes)
               ELSE IF id \notin DOMAIN categories THEN error(op, "CATEGORY_NOT_FOUND")
               ELSE safe_repository_operation(op, out.exc,
                        IF out.id # 0 THEN ok(op, id, 0, 0, NoData)
                        ELSE error(op, "DELETE_FAILED"))
    IN  /\ categories' = IF r.success THEN out.tab ELSE categories
        /\ subtypes' = IF r.success
                       THEN [s \in DOMAIN subtypes \ CategorySubtypes(id) |-> subtypes[s]]
                       ELSE subtypes
        /\ catCache' = category_hooks("after_delete", r, catCache)
        /\ res' = r
        /\ UNCHANGED <<mines, mineCache, subCache, now>>

bulk_create_categories(items, fault, keep) ==
    LET op  == "bulk_create_categories"
        val == UNION {validate_name(items[i], i) : i \in 1..Len(items)}
        out == bulk_create_names(categories,
                    [i \in 1..Len(items) |-> clean_whitespace(items[i])], keep)
        r   == IF val # {} THEN validation_error(op, val)
               ELSE safe_repository_operation(op, StoreFault(fault, out.exc),
                        ok(op, 0, 0, 0, [kind |-> "created", n |-> Len(items)]))
        ran == val = {} /\ ~fault
    IN  /\ ran => DOMAIN out.tab \subseteq 1..MaxCategories
        /\ categories' = IF ran THEN out.tab ELSE categories
        /\ catCache' = category_hooks("after_create", r, catCache)
        /\ res' = r
        /\ UNCHANGED <<mines, subtypes, mineCache, subCache, now>>

\* ------------------------------------------------------------------------
\* MineService
\* ------------------------------------------------------------------------
create_mine(name, fault) ==
    LET op  == "create_mine"
        val == validate_name(name, 0)
        out == create_with_validation(mines, clean_whitespace(name))
        r   == IF val # {} THEN validation_error(op, val)
               ELSE safe_repository_operation(op, StoreFault(fault, out.exc),
                        ok(op, out.id, 0, 0, NoData))
    IN  /\ r.success => out.id <= MaxMines
        /\ mines' = IF r.success THEN out.tab ELSE mines
        /\ mineCache' = mine_hooks("after_create", r, mineCache)
        /\ res' = r
        /\ UNCHANGED <<categories, subtypes, catCache, subCache, now>>

update_mine(id, name, fault) ==
    LET op  == "update_mine"
        val == validate_name(name, 0)
        out == update_with_validation(mines, id, clean_whitespace(name))
        r   == IF fault THEN safe_repository_operation(op, StoreFault(fault, ""), NoRes)
               ELSE IF id \notin DOMAIN mines THEN error(op, "MINE_NOT_FOUND")
               ELSE IF val # {} THEN validation_error(op, val)
               ELSE safe_repository_operation(op, out.exc, ok(op, id, 0, 0, NoData))
    IN  /\ mines' = IF r.success THEN out.tab ELSE mines
        /\ mineCache' = mine_hooks("after_update", r, mineCache)
        /\ res' = r
        /\ UNCHANGED <<categories, subtypes, catCache, subCache, now>>

delete_mine(id, fault) ==
    LET op  == "delete_mine"
        out == delete_with_validation(mines, id, MineSubtypes(id))
        r   == IF fault THEN safe_repository_operation(op, StoreFault(fault, ""), NoRes)
               ELSE IF id \notin DOMAIN mines THEN error(op, "MINE_NOT_FOUND")
               ELSE safe_repository_operation(op, out.exc,
                        IF out.id # 0 THEN ok(op, id, 0, 0, NoData)
                        ELSE error(op, "DELETE_FAILED"))
    IN  /\ mines' = IF r.success THEN out.tab ELSE mines
        /\ subtypes' = IF r.success
                       THEN [s \in DOMAIN subtypes \ MineSubtypes(id) |-> subtypes[s]]
                       ELSE subtypes
        /\ mineCache' = mine_hooks("after_delete", r, mineCache)
        /\ res' = r
        /\ UNCHANGED <<categories, catCache, subCache, now>>

bulk_create_mines(items, fault, keep) ==
    LET op  == "bulk_create_mines"
        val == UNION {validate_name(items[i], i) : i \in 1..Len(items)}
        out == bulk_create_names(mines,
                    [i \in 1..Len(items) |-> clean_whitespace(items[i])], keep)
        r   == IF val # {} THEN validation_error(op, val)
               ELSE safe_repository_operation(op, StoreFault(fault, out.exc),
                        ok(op, 0, 0, 0, [kind |-> "created", n |-> Len(items)]))
        ran == val = {} /\ ~fault
    IN  /\ ran => DOMAIN out.tab \subseteq 1..MaxMines
        /\ mines' = IF ran THEN out.tab ELSE mines
        /\ mineCache' = mine_hooks("after_create", r, mineCache)
        /\ res' = r
        /\ UNCHANGED <<categories, subtypes, catCache, subCache, now>>

\* ------------------------------------------------------------------------
\* ProductSubtypeService
\* ------------------------------------------------------------------------
\* a relationship check that accepts every id
validate_relationships_none(c, m, item) == {}

\* _validate_relationships: one error per referenced id that has no row
validate_relationships(c, m, item) ==
    (IF c \notin DOMAIN categories THEN {Err("category_missing", item, c)} ELSE {})
    \cup (IF m \notin DOMAIN mines THEN {Err("mine_missing", item, m)} ELSE {})

\* validator.validate(payload, _rules()) of a sub-type payload
validate_subtype(name, c, m, item) ==
    validate_name(name, item)
    \cup validate_id("category_id_min_value", c, item)
    \cup validate_id("mine_id_min_value", m, item)

create_subtype(name, c, m, fault) ==
    LET op  == "create_subtype"
        val == validate_subtype(name, c, m, 0)
        rel == validate_relationships(c, m, 0)
        out == subtype_create_with_validation(clean_whitespace(name), c, m)
        r   == IF val # {} THEN validation_error(op, val)
               ELSE IF fault THEN safe_repository_operation(op, StoreFault(fault, ""), NoRes)
               ELSE IF rel # {} THEN validation_error(op, rel)
               ELSE safe_repository_operation(op, out.exc, ok(op, out.id, c, m, NoData))
    IN  /\ r.success => out.id <= MaxSubtypes
        /\ subtypes' = IF r.success THEN out.tab ELSE subtypes
        /\ subCache' = subtype_hooks("after_create", r, subCache)
        /\ res' = r
        /\ UNCHANGED <<categories, mines, catCache, mineCache, now>>

update_subtype(id, name, c, m, fault) ==
    LET op  == "update_subtype"
        val == validate_subtype(name, c, m, 0)
        rel == validate_relationships(c, m, 0)
        out == subtype_update_with_validation(id, clean_whitespace(name), c, m)
        r   == IF fault THEN safe_repository_operation(op, StoreFault(fault, ""), NoRes)
               ELSE IF id \notin DOMAIN subtypes THEN error(op, "SUBTYPE_NOT_FOUND")
               ELSE IF val # {} THEN validation_error(op, val)
               ELSE IF rel # {} THEN validation_error(op, rel)
               ELSE safe_repository_operation(op, out.exc, ok(op, id, c, m, NoData))
    IN  /\ subtypes' = IF r.success THEN out.tab ELSE subtypes
        /\ subCache' = subtype_hooks("after_update", r, subCache)
        /\ res' = r
        /\ UNCHANGED <<categories, mines, catCache, mineCache, now>>

delete_subtype(id, fault) ==
    LET op  == "delete_subtype"
        out == delete_with_validation(subtypes, id, {})
        r   == IF fault THEN safe_repository_operation(op, StoreFault(fault, ""), NoRes)
               ELSE IF id \notin DOMAIN subtypes THEN error(op, "SUBTYPE_NOT_FOUND")
               ELSE safe_repository_operation(op, out.exc,
                        IF out.id # 0 THEN ok(op, id, 0, 0, NoData)
                        ELSE error(op, "DELETE_FAILED"))
    IN  /\ subtypes' = IF r.success THEN out.tab ELSE subtypes
        /\ subCache' = subtype_hooks("after_delete", r, subCache)
        /\ res' = r
        /\ UNCHANGED <<categories, mines, catCache, mineCache, now>>

bulk_create_subtypes(rows, fault, keep) ==
    LET op  == "bulk_create_subtypes"
        val == UNION {validate_subtype(rows[i].name, rows[i].category_id,
                                       rows[i].mine_id, i)
                      \cup validate_relationships(rows[i].category_id,
                                                  rows[i].mine_id, i)
                      : i \in 1..Len(rows)}
        out == bulk_create_subtype_rows(
                    [i \in 1..Len(rows) |->
                        SubRow(clean_whitespace(rows[i].name),
                               rows[i].category_id, rows[i].mine_id)], keep)
        ran == val = {} /\ ~fault
        r   == IF fault /\ rows # <<>>
               THEN safe_repository_operation(op, StoreFault(fault, ""), NoRes)
               ELSE IF val # {} THEN validation_error(op, val)
               ELSE safe_repository_operation(op, StoreFault(fault, out.exc),
                        ok(op, 0, 0, 0, [kind |-> "created", n |-> Len(rows)]))
    IN  /\ ran => DOMAIN out.tab \subseteq 1..MaxSubtypes
        /\ subtypes' = IF ran THEN out.tab ELSE subtypes
        /\ subCache' = subtype_hooks("after_create", r, subCache)
        /\ res' = r
        /\ UNCHANGED <<categories, mines, catCache, mineCache, now>>

\* ------------------------------------------------------------------------
\* SettingsController: the settings hub deletes rows through the ORM session
\* ------------------------------------------------------------------------
flash(op, category, cause) ==
    Envelope(op, "flash", category = "success", "", cause, {}, 0, 0, 0, NoData)

category_delete(id, fault) ==
    LET op == "category_delete"
        r  == IF id \notin DOMAIN categories THEN Envelope(op, "http404", FALSE, "", "", {}, 0, 0, 0, NoData)
              ELSE IF CategorySubtypes(id) # {} THEN flash(op, "error", "has_subtypes")
              ELSE IF fault THEN flash(op, "error", "OperationalError")
              ELSE flash(op, "success", "")
    IN  /\ categories' = IF r.success THEN Remove(categories, id) ELSE categories
        /\ subtypes' = IF r.success
                       THEN [s \in DOMAIN subtypes \ CategorySubtypes(id) |-> subtypes[s]]
                       ELSE subtypes
        /\ res' = r
        /\ UNCHANGED <<mines, catCache, mineCache, subCache, now>>

\* a hub delete that does not look at the mine's sub-types
mine_delete_unguarded(id, fault) ==
    LET op == "mine_delete"
        r  == IF id \notin DOMAIN mines THEN Envelope(op, "http404", FALSE, "", "", {}, 0, 0, 0, NoData)
              ELSE IF fault THEN flash(op, "error", "OperationalError")
              ELSE flash(op, "success", "")
    IN  /\ mines' = IF r.success THEN Remove(mines, id) ELSE mines
        /\ subtypes' = IF r.success
                       THEN [s \in DOMAIN subtypes \ MineSubtypes(id) |-> subtypes[s]]
                       ELSE subtypes
        /\ res' = r
        /\ UNCHANGED <<categories, catCache, mineCache, subCache, now>>

mine_delete(id, fault) ==
    LET op == "mine_delete"
        r  == IF id \notin DOMAIN mines THEN Envelope(op, "http404", FALSE, "", "", {}, 0, 0, 0, NoData)
              ELSE IF MineSubtypes(id) # {} THEN flash(op, "error", "has_subtypes")
              ELSE IF fault THEN flash(op, "error", "OperationalError")
              ELSE flash(op, "success", "")
    IN  /\ mines' = IF r.success THEN Remove(mines, id) ELSE mines
        /\ subtypes' = IF r.success
                       THEN [s \in DOMAIN subtypes \ MineSubtypes(id) |-> subtypes[s]]
                       ELSE subtypes
        /\ res' = r
        /\ UNCHANGED <<categories, catCache, mineCache, subCache, now>>

\* ------------------------------------------------------------------------
\* Specification of the write paths
\* ------------------------------------------------------------------------
\* what a mixin method handed back: the method, its arguments, the row it
\* returned, the created flag, the data, and how often it ran the fetch function
Ret(op, args, id, created, data, fetches) ==
    [op |-> op, args |-> args, id |-> id, created |-> created, data |-> data,
     fetches |-> fetches]

NoRet == Ret("", <<>>, 0, FALSE, {}, 0)

\* no call between its check and its write
NoCall == [name |-> "", category_id |-> 0, mine_id |-> 0]

\* two workers share the store and the service caches; a worker is idle, or
\* between two steps of a call (pc), or holds the envelope of a finished call
Workers == {1, 2}
NoStep == [op |-> "", pc |-> "idle", id |-> 0, name |-> "", data |-> NoData, out |-> NoRes]
NoPending == [w \in Workers |-> NoStep]

\* no scenario under validation
NoAllocations == [kind |-> "none", items |-> <<>>]
YearMin == 2020
YearMax == 2050
YearsAhead == 30
VolumeMax == 1000000
MoistureMax == 100

\* ProductionScenario(...): dates are day numbers, the volume is in metric
\* tons, the moisture in percent; parent_scenario_id 0 is NULL
ProductionScenario(name, year, start, end, volume, moisture, data, baseline, parent) ==
    [name |-> name, contractual_year |-> year, start_date |-> start,
     end_date |-> end, production_volume |-> volume,
     moisture_percentage |-> moisture, partner_allocation_json |-> data,
     is_baseline |-> baseline, parent_scenario_id |-> parent,
     validated |-> FALSE, errors |-> {}]

NoScenario == ProductionScenario("", 0, 0, 0, 0, 0, NoAllocations, FALSE, 0)

Init ==
    /\ categories = EmptyTable
    /\ mines = EmptyTable
    /\ subtypes = EmptyTable
    /\ res = NoRes
    /\ catCache = EmptyCache
    /\ mineCache = EmptyCache
    /\ subCache = EmptyCache
    /\ now = 0
    /\ entities = EmptyTable
    /\ ret = NoRet
    /\ repoCache = EmptyCache
    /\ inflight = NoCall
    /\ scenario = NoScenario
    /\ pending = NoPending

\* one request at a time: a call is made when the caller holds no response, and
\* Deliver hands the response of the last call to the caller
Idle == res.kind = "none"

Deliver ==
    /\ ~Idle
    /\ res' = NoRes
    /\ UNCHANGED <<categories, mines, subtypes, catCache, mineCache, subCache, now>>
    /\ UNCHANGED <<mixinVars, inflight, scenario, pending>>

CreateCategory ==
    /\ Idle
    /\ \E a \in Faulty(NameInputs, "ore") : create_category(a[1], a[2])
    /\ UNCHANGED <<mixinVars, inflight, scenario, pending>>
UpdateCategory ==
    /\ Idle
    /\ \E a \in Faulty(CategoryIds \X NameInputs, <<1, "ore">>) :
        update_category(a[1][1], a[1][2], a[2])
    /\ UNCHANGED <<mixinVars, inflight, scenario, pending>>
DeleteCategory ==
    /\ Idle
    /\ \E a \in Faulty(CategoryIds, 1) : delete_category(a[1], a[2])
    /\ UNCHANGED <<mixinVars, inflight, scenario, pending>>
BulkCreateCategories ==
    /\ Idle
    /\ \E a \in Faulty(NamePayloads, <<"ore">>) :
        \E k \in KeepChoices(a[1]) : bulk_create_categories(a[1], a[2], k)
    /\ UNCHANGED <<mixinVars, inflight, scenario, pending>>
CreateMine ==
    /\ Idle
    /\ \E a \in Faulty(NameInputs, "ore") : create_mine(a[1], a[2])
    /\ UNCHANGED <<mixinVars, inflight, scenario, pending>>
UpdateMine ==
    /\ Idle
    /\ \E a \in Faulty(MineIds \X NameInputs, <<1, "ore">>) :
        update_mine(a[1][1], a[1][2], a[2])
    /\ UNCHANGED <<mixinVars, inflight, scenario, pending>>
DeleteMine ==
    /\ Idle
    /\ \E a \in Faulty(MineIds, 1) : delete_mine(a[1], a[2])
    /\ UNCHANGED <<mixinVars, inflight, scenario, pending>>
BulkCreateMines ==
    /\ Idle
    /\ \E a \in Faulty(NamePayloads, <<"ore">>) :
        \E k \in KeepChoices(a[1]) : bulk_create_mines(a[1], a[2], k)
    /\ UNCHANGED <<mixinVars, inflight, scenario, pending>>
CreateSubtype ==
    /\ Idle
    /\ \E a \in Faulty(SubtypeNameInputs \X CategoryRefs \X MineRefs, <<"ore", 1, 1>>) :
        create_subtype(a[1][1], a[1][2], a[1][3], a[2])
    /\ UNCHANGED <<mixinVars, inflight, scenario, pending>>
UpdateSubtype ==
    /\ Idle
    /\ \E a \in Faulty(SubtypeIds \X SubtypeNameInputs \X CategoryRefs \X MineRefs,
                    <<1, "ore", 1, 1>>) :
        update_subtype(a[1][1], a[1][2], a[1][3], a[1][4], a[2])
    /\ UNCHANGED <<mixinVars, inflight, scenario, pending>>
DeleteSubtype ==
    /\ Idle
    /\ \E a \in Faulty(SubtypeIds, 1) : delete_subtype(a[1], a[2])
    /\ UNCHANGED <<mixinVars, inflight, scenario, pending>>
BulkCreateSubtypes ==
    /\ Idle
    /\ \E a \in Faulty(SubtypePayloads, <<SubRow("ore", 1, 1)>>) :
        \E k \in KeepChoices(a[1]) : bulk_create_subtypes(a[1], a[2], k)
    /\ UNCHANGED <<mixinVars, inflight, scenario, pending>>
HubCategoryDelete ==
    /\ Idle
    /\ \E a \in Faulty(CategoryIds, 1) : category_delete(a[1], a[2])
    /\ UNCHANGED <<mixinVars, inflight, scenario, pending>>
HubMineDelete ==
    /\ Idle
    /\ \E a \in Faulty(MineIds, 1) : mine_delete(a[1], a[2])
    /\ UNCHANGED <<mixinVars, inflight, scenario, pending>>

Next ==
    \/ CreateCategory
    \/ UpdateCategory
    \/ DeleteCategory
    \/ BulkCreateCategories
    \/ CreateMine
    \/ UpdateMine
    \/ DeleteMine
    \/ BulkCreateMines
    \/ CreateSubtype
    \/ UpdateSubtype
    \/ DeleteSubtype
    \/ BulkCreateSubtypes
    \/ HubCategoryDelete
    \/ HubMineDelete
    \/ Deliver

Spec == Init /\ [][Next]_vars

\* ------------------------------------------------------------------------
\* Cached reads of the services
\* ------------------------------------------------------------------------
MaxClock == 300
TickSeconds == 300

EntityTtl == 300
WithSubtypesTtl == 600
SelectTtl == 600
StatsTtl == 900

\* _cache_get(key): the stored data of a valid entry, None otherwise
cache_get(cache, key) == IF cache_valid(cache, key) THEN cache[key].data ELSE NoData

\* truth value of what _cache_get returned: None and the empty list are falsy
Truthy(data) ==
    /\ data.kind # "none"
    /\ data.kind = "list" => data.items # {}

\* the outcome of a cached read: the envelope, the cache afterwards and the
\* number of times fetch_fn was called
ReadOutcome(r, cache, fetched) == [res |-> r, cache |-> cache, fetched |-> fetched]

\* a _cached_entity that would also store the outcome of a fetch that found
\* no row, as a marker served to later calls
cached_entity_caches_missing(op, cache, key, found, data, ttl, fault, code) ==
    IF Truthy(cache_get(cache, key))
    THEN ReadOutcome(ok(op, 0, 0, 0, cache_get(cache, key)), cache, 0)
    ELSE IF fault THEN ReadOutcome(raised(op, "OperationalError"), cache, 1)
    ELSE IF ~found
         THEN ReadOutcome(error(op, code),
                          cache_set(cache, key, [kind |-> "missing"], ttl), 1)
    ELSE ReadOutcome(ok(op, 0, 0, 0, data), cache_set(cache, key, data, ttl), 1)

\* _cached_entity(cache_key, fetch_fn, not_found_msg, error_code, cache_ttl)
cached_entity(op, cache, key, found, data, ttl, fault, code) ==
    IF Truthy(cache_get(cache, key))
    THEN ReadOutcome(ok(op, 0, 0, 0, cache_get(cache, key)), cache, 0)
    ELSE IF fault THEN ReadOutcome(raised(op, "OperationalError"), cache, 1)
    ELSE IF ~found THEN ReadOutcome(error(op, code), cache, 1)
    ELSE ReadOutcome(ok(op, 0, 0, 0, data), cache_set(cache, key, data, ttl), 1)

\* _cached_simple(cache_key, fetch_fn, success_msg, cache_ttl)
cached_simple(op, cache, key, data, ttl, fault) ==
    IF Truthy(cache_get(cache, key))
    THEN ReadOutcome(ok(op, 0, 0, 0, cache_get(cache, key)), cache, 0)
    ELSE IF fault THEN ReadOutcome(raised(op, "OperationalError"), cache, 1)
    ELSE ReadOutcome(ok(op, 0, 0, 0, data), cache_set(cache, key, data, ttl), 1)

\* what the fetch functions return
EntityDto(tab, id) == [kind |-> "entity", id |-> id, row |-> tab[id]]
WithSubtypesDto(tab, id, subs) ==
    [kind |-> "entity", id |-> id, row |-> tab[id],
     subtypes |-> {<<s, subtypes[s]>> : s \in subs}]
ListDto(tab, ids) == [kind |-> "list", items |-> {<<i, tab[i]>> : i \in ids}]
StatsDto(tab, with_sub) ==
    [kind |-> "stats", total |-> Cardinality(DOMAIN tab),
     with_subtypes |-> Cardinality(with_sub)]

\* the cached reads as outcomes of the current state
category_read(id, fault) ==
    cached_entity("get_category", catCache, "category:" \o IdStr(id),
        id \in DOMAIN categories, EntityDto(categories, id),
        EntityTtl, fault, "CATEGORY_NOT_FOUND")

category_with_subtypes_read(id, fault) ==
    cached_entity("get_category_with_subtypes", catCache,
        "category_subtypes:" \o IdStr(id), id \in DOMAIN categories,
        WithSubtypesDto(categories, id, CategorySubtypes(id)),
        WithSubtypesTtl, fault, "CATEGORY_NOT_FOUND")

categories_for_select_read(fault) ==
    cached_simple("get_categories_for_select", catCache, "categories_select",
        ListDto(categories, DOMAIN categories), SelectTtl, fault)

category_statistics_read(fault) ==
    cached_simple("get_category_statistics", catCache, "category_stats",
        StatsDto(categories, {c \in DOMAIN categories : CategorySubtypes(c) # {}}),
        StatsTtl, fault)

mine_read(id, fault) ==
    cached_entity("get_mine", mineCache, "mine:" \o IdStr(id),
        id \in DOMAIN mines, EntityDto(mines, id),
        EntityTtl, fault, "MINE_NOT_FOUND")

subtypes_for_select_read(fault) ==
    cached_simple("get_subtypes_for_select", subCache, "subtypes_select",
        ListDto(subtypes, DOMAIN subtypes), SelectTtl, fault)

get_category(id, fault) ==
    LET out == category_read(id, fault)
    IN  /\ res' = out.res
        /\ catCache' = out.cache
        /\ UNCHANGED <<categories, mines, subtypes, mineCache, subCache, now>>

get_category_with_subtypes(id, fault) ==
    LET out == category_with_subtypes_read(id, fault)
    IN  /\ res' = out.res
        /\ catCache' = out.cache
        /\ UNCHANGED <<categories, mines, subtypes, mineCache, subCache, now>>

get_categories_for_select(fault) ==
    LET out == categories_for_select_read(fault)
    IN  /\ res' = out.res
        /\ catCache' = out.cache
        /\ UNCHANGED <<categories, mines, subtypes, mineCache, subCache, now>>

get_category_statistics(fault) ==
    LET out == category_statistics_read(fault)
    IN  /\ res' = out.res
        /\ catCache' = out.cache
        /\ UNCHANGED <<categories, mines, subtypes, mineCache, subCache, now>>

\* MineService.get_mine: the steps of _cached_entity written out in the method
get_mine(id, fault) ==
    LET out == mine_read(id, fault)
    IN  /\ res' = out.res
        /\ mineCache' = out.cache
        /\ UNCHANGED <<categories, mines, subtypes, catCache, subCache, now>>

get_subtypes_for_select(fault) ==
    LET out == subtypes_for_select_read(fault)
    IN  /\ res' = out.res
        /\ subCache' = out.cache
        /\ UNCHANGED <<categories, mines, subtypes, catCache, mineCache, now>>

\* the clock that the cache timestamps are read from
Tick ==
    /\ Idle
    /\ now + TickSeconds <= MaxClock
    /\ now' = now + TickSeconds
    /\ UNCHANGED <<categories, mines, subtypes, res, catCache, mineCache, subCache>>
    /\ UNCHANGED <<mixinVars, inflight, scenario, pending>>

\* ------------------------------------------------------------------------
\* Specification of the cached reads: the reads, the clock and the writes
\* that invalidate, on a small set of names
\* ------------------------------------------------------------------------
CachedNames == {"ore", "bxt"}
CachedCategoryIds == {1}
CachedMineIds == {1}
CachedSubtypeIds == {1}

GetCategory ==
    /\ Idle
    /\ \E a \in Faulty(CachedCategoryIds, 1) : get_category(a[1], a[2])
    /\ UNCHANGED <<mixinVars, inflight, scenario, pending>>
GetCategoryWithSubtypes ==
    /\ Idle
    /\ \E a \in Faulty(CachedCategoryIds, 1) : get_category_with_subtypes(a[1], a[2])
    /\ UNCHANGED <<mixinVars, inflight, scenario, pending>>
GetCategoriesForSelect ==
    /\ Idle
    /\ \E f \in BOOLEAN : get_categories_for_select(f)
    /\ UNCHANGED <<mixinVars, inflight, scenario, pending>>
GetCategoryStatistics ==
    /\ Idle
    /\ \E f \in BOOLEAN : get_category_statistics(f)
    /\ UNCHANGED <<mixinVars, inflight, scenario, pending>>
GetMine ==
    /\ Idle
    /\ \E a \in Faulty(CachedMineIds, 1) : get_mine(a[1], a[2])
    /\ UNCHANGED <<mixinVars, inflight, scenario, pending>>
WriteCategory ==
    /\ Idle
    /\ \/ \E n \in CachedNames : create_category(n, FALSE)
       \/ \E i \in CachedCategoryIds, n \in CachedNames : update_category(i, n, FALSE)
       \/ \E i \in CachedCategoryIds : delete_category(i, FALSE)
    /\ UNCHANGED <<mixinVars, inflight, scenario, pending>>
WriteMine ==
    /\ Idle
    /\ \/ \E n \in CachedNames : create_mine(n, FALSE)
       \/ \E i \in CachedMineIds, n \in CachedNames : update_mine(i, n, FALSE)
       \/ \E i \in CachedMineIds : delete_mine(i, FALSE)
    /\ UNCHANGED <<mixinVars, inflight, scenario, pending>>
WriteSubtype ==
    /\ Idle
    /\ \/ \E c \in CachedCategoryIds, m \in CachedMineIds : create_subtype("ore", c, m, FALSE)
       \/ \E i \in CachedSubtypeIds, c \in CachedCategoryIds, m \in CachedMineIds :
            update_subtype(i, "ore", c, m, FALSE)
       \/ \E i \in CachedSubtypeIds : delete_subtype(i, FALSE)
    /\ UNCHANGED <<mixinVars, inflight, scenario, pending>>

NextCache ==
    \/ GetCategory
    \/ GetCategoryWithSubtypes
    \/ GetCategoriesForSelect
    \/ GetCategoryStatistics
    \/ GetMine
    \/ WriteCategory
    \/ WriteMine
    \/ WriteSubtype
    \/ Tick
    \/ Deliver

SpecCache == Init /\ [][NextCache]_vars

\* ------------------------------------------------------------------------
\* Repository mixins: RepositoryMixin.get_or_create, SearchMixin.search and
\* CacheMixin, on a repository whose model has the columns name and code
\* ------------------------------------------------------------------------
MaxEntities == 2
MaxRepoClock == 600

\* Python None, SQL NULL
None == "<None>"

Fields == {"name", "code"}
ModelName == "Row"

\* BaseRepository.create(**kwargs): a column without a value is NULL
create(kwargs) ==
    Insert(entities, [f \in Fields |-> IF f \in DOMAIN kwargs THEN kwargs[f] ELSE None])

\* query.filter_by(**lookup)
filter_by(lookup) ==
    {i \in DOMAIN entities : \A f \in DOMAIN lookup : entities[i][f] = lookup[f]}

\* query.first(): the matching row of lowest id
first(ids) == CHOOSE i \in ids : \A j \in ids : i <= j

get_or_create(defaults, lookup) ==
    LET found == filter_by(lookup)
        create_kwargs == [f \in DOMAIN lookup \cup DOMAIN defaults |->
                            IF f \in DOMAIN defaults THEN defaults[f] ELSE lookup[f]]
    IN  /\ IF found # {}
           THEN /\ ret' = Ret("get_or_create", <<defaults, lookup>>, first(found), FALSE, {}, 0)
                /\ UNCHANGED entities
           ELSE /\ NewId(entities) <= MaxEntities
                /\ entities' = create(create_kwargs)
                /\ ret' = Ret("get_or_create", <<defaults, lookup>>, NewId(entities), TRUE, {}, 0)
        /\ UNCHANGED <<serviceVars, now, repoCache>>

\* lower-casing, as ILIKE compares
LowerOf ==
    "A" :> "a" @@ "B" :> "b" @@ "C" :> "c" @@ "D" :> "d" @@ "E" :> "e" @@
    "F" :> "f" @@ "G" :> "g" @@ "H" :> "h" @@ "I" :> "i" @@ "J" :> "j" @@
    "K" :> "k" @@ "L" :> "l" @@ "M" :> "m" @@ "N" :> "n" @@ "O" :> "o" @@
    "P" :> "p" @@ "Q" :> "q" @@ "R" :> "r" @@ "S" :> "s" @@ "T" :> "t" @@
    "U" :> "u" @@ "V" :> "v" @@ "W" :> "w" @@ "X" :> "x" @@ "Y" :> "y" @@
    "Z" :> "z"

RECURSIVE lower(_)
lower(s) ==
    IF Len(s) = 0 THEN s
    ELSE (IF Head(s) \in DOMAIN LowerOf THEN LowerOf[Head(s)] ELSE Head(s)) \o lower(Tail(s))

\* SQL LIKE: % stands for any run of characters, _ for any one character
RECURSIVE like(_, _)
like(s, p) ==
    IF Len(p) = 0 THEN Len(s) = 0
    ELSE IF Head(p) = "%" THEN like(s, Tail(p)) \/ (Len(s) > 0 /\ like(Tail(s), p))
    ELSE /\ Len(s) > 0
         /\ Head(p) = "_" \/ Head(p) = Head(s)
         /\ like(Tail(s), Tail(p))

\* column.ilike(pattern); NULL matches nothing
ilike(value, pattern) == value # None /\ like(lower(value), lower(pattern))

\* hasattr(self.model_class, f)
hasattr(f) == f \in Fields

\* SearchMixin.search(phrase, fields): the ids of the rows returned
search(phrase, fields) ==
    LET conditions == {fields[k] : k \in {x \in 1..Len(fields) : hasattr(fields[x])}}
    IN  IF phrase = "" \/ Len(fields) = 0 THEN {}
        ELSE IF conditions = {} THEN {}
        ELSE {i \in DOMAIN entities :
                \E f \in conditions : ilike(entities[i][f], "%" \o phrase \o "%")}

\* str(a) of a positional argument
StrArg(s) == [type |-> "str", text |-> s]
IntArg(n) == [type |-> "int", text |-> ToString(n)]
str(a) == a.text

RECURSIVE Join(_, _)
Join(parts, sep) ==
    IF Len(parts) = 0 THEN ""
    ELSE IF Len(parts) = 1 THEN parts[1]
    ELSE parts[1] \o sep \o Join(Tail(parts), sep)

\* the keyword names in sorted order
KwOrder == <<"code", "name">>

\* **kwargs: the keyword arguments of a call, <<name, value>> pairs in the
\* order the caller wrote them; as a mapping
KwMap(kwargs) ==
    [k \in {kwargs[i][1] : i \in 1..Len(kwargs)} |->
        (CHOOSE i \in 1..Len(kwargs) : kwargs[i][1] = k) ]

KwValue(kwargs, k) == kwargs[KwMap(kwargs)[k]][2]

\* kwargs.items() as the caller wrote them
items_unsorted(kwargs) == kwargs

\* sorted(kwargs.items()): the pairs by ascending keyword name
sorted(kwargs) ==
    LET given == SelectSeq(KwOrder, LAMBDA k : k \in DOMAIN KwMap(kwargs))
    IN  [i \in 1..Len(given) |-> <<given[i], KwValue(kwargs, given[i])>>]

\* CacheMixin._cache_key(method, *args, **kwargs)
CacheMixin_cache_key(method, args, kwargs) ==
    LET items == sorted(kwargs)
    IN  Join(<<ModelName, method>>
             \o [i \in 1..Len(args) |-> str(args[i])]
             \o [i \in 1..Len(items) |-> items[i][1] \o "=" \o items[i][2]],
             ":")

CacheTimeout == 300

\* self._cache.get(key)
NoEntry == [data |-> {}, ts |-> -1, none |-> TRUE]
CacheMixin_get(cache, key) ==
    IF key \in DOMAIN cache THEN cache[key] ELSE NoEntry

\* an entry that stays valid through the last second of its timeout
CacheMixin_cache_valid_inclusive(entry) ==
    IF entry = NoEntry THEN FALSE ELSE now - entry.ts <= CacheTimeout

\* CacheMixin._cache_valid(entry)
CacheMixin_cache_valid(entry) ==
    IF entry = NoEntry THEN FALSE ELSE now - entry.ts < CacheTimeout

\* CacheMixin.cached_query(method, func, *args, **kwargs), data being what
\* func(*args, **kwargs) returns
cached_query(method, args, kwargs, data) ==
    LET key   == CacheMixin_cache_key(method, args, kwargs)
        entry == CacheMixin_get(repoCache, key)
    IN  /\ IF CacheMixin_cache_valid(entry)
           THEN /\ ret' = Ret("cached_query", key, 0, FALSE, entry.data, 0)
                /\ UNCHANGED repoCache
           ELSE /\ ret' = Ret("cached_query", key, 0, FALSE, data, 1)
                /\ repoCache' = [k \in DOMAIN repoCache \cup {key} |->
                                    IF k = key THEN [data |-> data, ts |-> now]
                                    ELSE repoCache[k]]
        /\ UNCHANGED <<serviceVars, now, entities>>

\* CacheMixin.clear_cache(pattern)
CacheMixin_clear_cache(pattern) ==
    /\ repoCache' = IF pattern = None THEN EmptyCache
                    ELSE [k \in {x \in DOMAIN repoCache : ~Contains(x, pattern)} |->
                            repoCache[k]]
    /\ ret' = Ret("clear_cache", pattern, 0, FALSE, {}, 0)
    /\ UNCHANGED <<serviceVars, now, entities>>

\* ------------------------------------------------------------------------
\* Specification of get_or_create and search
\* ------------------------------------------------------------------------
Values == {"ab", "Ba"}
PartialMaps == UNION {[D -> Values] : D \in SUBSET Fields}
Phrases == {"", "a", "B", "ab", "_", "%"}
FieldLists == {<<>>, <<"name">>, <<"code">>, <<"owner">>, <<"name", "code">>,
               <<"owner", "name">>}

Create ==
    /\ \E row \in [Fields -> Values] :
        /\ NewId(entities) <= MaxEntities
        /\ entities' = create(row)
        /\ ret' = Ret("create", row, NewId(entities), TRUE, {}, 0)
    /\ UNCHANGED <<serviceVars, now, repoCache>>

GetOrCreate == \E d \in PartialMaps, l \in PartialMaps : get_or_create(d, l)

Search ==
    /\ \E ph \in Phrases, fl \in FieldLists :
        ret' = Ret("search", <<ph, fl>>, 0, FALSE, search(ph, fl), 0)
    /\ UNCHANGED <<serviceVars, now, entities, repoCache>>

NextMixins ==
    \/ Create
    \/ GetOrCreate
    \/ Search

SpecMixins == Init /\ [][NextMixins]_vars

\* ------------------------------------------------------------------------
\* Specification of the CacheMixin: cached queries over the table, the clock,
\* inserts that change what the queries return, and clear_cache
\* ------------------------------------------------------------------------
\* the cached methods: get_all(), find_by_name(name), find_by(name=..., code=...)
Queries ==
    {[method |-> "get_all", args |-> <<>>, kwargs |-> <<>>],
     [method |-> "find_by_name", args |-> <<StrArg("ab")>>, kwargs |-> <<>>],
     [method |-> "find_by", args |-> <<>>,
      kwargs |-> << <<"name", "Ba">>, <<"code", "ab">> >>],
     [method |-> "find_by", args |-> <<>>,
      kwargs |-> << <<"code", "ab">>, <<"name", "Ba">> >>]}

\* what the query returns from the table
Fetch(q) ==
    IF q.method = "get_all" THEN DOMAIN entities
    ELSE IF q.method = "find_by_name" THEN filter_by([k \in {"name"} |-> str(q.args[1])])
    ELSE filter_by([k \in DOMAIN KwMap(q.kwargs) |-> KwValue(q.kwargs, k)])

CachedQuery ==
    \E q \in Queries : cached_query(q.method, q.args, q.kwargs, Fetch(q))

\* pattern arguments of clear_cache: None, parts of keys and a text no key
\* contains
ClearPatterns == {None, "find_by", "name=", "stats"}

ClearCache ==
    \E pattern \in ClearPatterns : CacheMixin_clear_cache(pattern)

RepoCreate ==
    /\ \E n \in Values :
        /\ NewId(entities) <= MaxEntities
        /\ entities' = create([k \in {"name", "code"} |-> IF k = "name" THEN n ELSE "ab"])
        /\ ret' = Ret("create", <<>>, NewId(entities), TRUE, {}, 0)
    /\ UNCHANGED <<serviceVars, now, repoCache>>

RepoTick ==
    /\ \E d \in {CacheTimeout - 1, CacheTimeout} :
        /\ now + d <= MaxRepoClock
        /\ now' = now + d
    /\ UNCHANGED <<serviceVars, mixinVars>>

NextRepoCache ==
    \/ CachedQuery
    \/ ClearCache
    \/ RepoCreate
    \/ RepoTick

SpecRepoCache == Init /\ [][NextRepoCache]_vars

\* ------------------------------------------------------------------------
\* Properties of the write paths
\* ------------------------------------------------------------------------
Rows(tab) == {tab[i] : i \in DOMAIN tab}
NoDuplicateRows(tab) == \A i, j \in DOMAIN tab : i # j => tab[i] # tab[j]

\* C3: deleting an existing category that has a sub-type is refused with an
\* integrity error and removes nothing; with no sub-type the category is
\* removed and success is reported; on the service path (delete_category) and
\* on the settings-hub path (category_delete) alike.
C3_DeleteCategoryGuarded ==
    [][\A i \in CategoryIds :
        (/\ Idle
         /\ i \in DOMAIN categories
         /\ delete_category(i, FALSE) \/ category_delete(i, FALSE))
        => IF \E s \in DOMAIN subtypes : subtypes[s].category_id = i
           THEN /\ ~res'.success
                /\ res'.cause \in {"IntegrityError", "has_subtypes"}
                /\ categories' = categories
                /\ subtypes' = subtypes
           ELSE /\ res'.success
                /\ DOMAIN categories' = DOMAIN categories \ {i}
                /\ \A j \in DOMAIN categories' : categories'[j] = categories[j]
                /\ subtypes' = subtypes]_vars

\* a delete of a category with a sub-type was refused on the service path
C3_Witness ==
    /\ res.op = "delete_category"
    /\ res.cause = "IntegrityError"
    /\ \E s \in DOMAIN subtypes : subtypes[s].category_id \in DOMAIN categories

\* C4 (as claimed): create_subtype, and update_subtype of an existing
\* sub-type, that reference a category id or a mine id without a row return a
\* validation envelope whose errors name each missing id, and leave the
\* sub-type table unchanged.
C4_MissingParentNamed ==
    [][\A n \in SubtypeNameInputs, c \in CategoryIds, m \in MineIds :
        (/\ Idle
         /\ c \notin DOMAIN categories \/ m \notin DOMAIN mines
         /\ \/ create_subtype(n, c, m, FALSE)
            \/ \E i \in DOMAIN subtypes : update_subtype(i, n, c, m, FALSE))
        => /\ res'.kind = "validation"
           /\ c \notin DOMAIN categories =>
                \E e \in res'.errors : e.tag = "category_missing" /\ e.id = c
           /\ m \notin DOMAIN mines =>
                \E e \in res'.errors : e.tag = "mine_missing" /\ e.id = m
           /\ subtypes' = subtypes]_vars

\* what the claims call an invalid bulk item
FailsNameRules(n) ==
    \/ Len(n) < NameMinLength
    \/ Len(n) > NameMaxLength
    \/ \E k \in 1..Len(n) : SubSeq(n, k, k) \notin PatternChars

NameItemInvalid(tab, n) ==
    \/ FailsNameRules(n)
    \/ clean_whitespace(n) = ""
    \/ clean_whitespace(n) \in Rows(tab)

SubtypeItemInvalid(r) ==
    \/ FailsNameRules(r.name)
    \/ clean_whitespace(r.name) = ""
    \/ r.category_id < 1
    \/ r.mine_id < 1
    \/ SubRow(clean_whitespace(r.name), r.category_id, r.mine_id) \in Rows(subtypes)

C10_DuplicateCreateRejected ==
    [][/\ \A n \in NameInputs :
            /\ (Idle /\ create_category(n, FALSE) /\ clean_whitespace(n) \in Rows(categories))
               => /\ res'.kind = "error" /\ ~res'.success
                  /\ res'.cause = "DuplicateError"
                  /\ res'.error_code = "create_category_failed"
                  /\ categories' = categories
            /\ (Idle /\ create_mine(n, FALSE) /\ clean_whitespace(n) \in Rows(mines))
               => /\ res'.kind = "error" /\ ~res'.success
                  /\ res'.cause = "DuplicateError"
                  /\ res'.error_code = "create_mine_failed"
                  /\ mines' = mines
       /\ \A n \in SubtypeNameInputs, c \in CategoryRefs, m \in MineRefs :
            (Idle /\ create_subtype(n, c, m, FALSE)
                  /\ SubRow(clean_whitespace(n), c, m) \in Rows(subtypes))
            => /\ res'.kind = "error" /\ ~res'.success
               /\ res'.cause = "DuplicateError"
               /\ res'.error_code = "create_subtype_failed"
               /\ subtypes' = subtypes]_vars

\* a duplicate create_subtype was turned into an envelope
C10_Witness ==
    /\ res.op = "create_subtype"
    /\ res.kind = "error"
    /\ res.cause = "DuplicateError"

\* ------------------------------------------------------------------------
\* Properties of the cached reads
\* ------------------------------------------------------------------------
\* C1 (as claimed): right after a successful create, update or delete of the
\* entity with id i through its service, the cache of that service holds no
\* valid entry under the per-id keys of i nor under the listing and statistics
\* keys of the type.
C1_WriteInvalidates ==
    /\ (res.success /\ res.op \in {"create_category", "update_category", "delete_category"})
       => \A k \in {"category:" \o IdStr(res.id), "category_subtypes:" \o IdStr(res.id),
                    "categories_select", "category_stats"} : ~cache_valid(catCache, k)
    /\ (res.success /\ res.op \in {"create_mine", "update_mine", "delete_mine"})
       => \A k \in {"mine:" \o IdStr(res.id), "mine_subtypes:" \o IdStr(res.id),
                    "mines_select", "mine_stats"} : ~cache_valid(mineCache, k)
    /\ (res.success /\ res.op \in {"create_subtype", "update_subtype", "delete_subtype"})
       => \A k \in {"subtype:" \o IdStr(res.id), "subtypes_select", "subtype_stats"} :
            ~cache_valid(subCache, k)

\* C6 (as claimed): no call of a service method ends with an exception that
\* reaches the caller.
C6_NothingEscapes ==
    res.op \in {"create_category", "update_category", "delete_category",
                "create_mine", "update_mine", "delete_mine",
                "create_subtype", "update_subtype", "delete_subtype",
                "get_category", "get_category_with_subtypes",
                "get_categories_for_select", "get_category_statistics", "get_mine"}
    => res.kind # "raised"

\* ------------------------------------------------------------------------
\* Properties of the repository mixins
\* ------------------------------------------------------------------------
\* C2: cached_query returns the stored data without running the fetch
\* function when the key has an entry younger than the timeout (strictly);
\* otherwise it runs the fetch function once, returns its result and stores
\* it under the key with the current timestamp.
C2_CachedQueryWindow ==
    [][\A q \in Queries :
        cached_query(q.method, q.args, q.kwargs, Fetch(q))
        => LET key == CacheMixin_cache_key(q.method, q.args, q.kwargs)
           IN  IF key \in DOMAIN repoCache /\ now - repoCache[key].ts < CacheTimeout
               THEN /\ ret'.fetches = 0
                    /\ ret'.data = repoCache[key].data
                    /\ repoCache' = repoCache
               ELSE /\ ret'.fetches = 1
                    /\ ret'.data = Fetch(q)
                    /\ repoCache'[key] = [data |-> Fetch(q), ts |-> now]
                    /\ \A k \in DOMAIN repoCache \ {key} : repoCache'[k] = repoCache[k]]_vars

\* a call answered from an entry in the last second of its window, while the
\* table already holds something else
C2_Witness ==
    /\ ret.op = "cached_query"
    /\ ret.fetches = 0
    /\ ret.args \in DOMAIN repoCache
    /\ now - repoCache[ret.args].ts = CacheTimeout - 1
    /\ ret.args = "Row:get_all"
    /\ ret.data # DOMAIN entities

\* C7 (as claimed): a get_or_create that repeats the arguments of the
\* get_or_create before it returns the same row, reports created = False and
\* leaves the number of rows unchanged.
C7_GetOrCreateIdempotent ==
    [][\A d \in PartialMaps, l \in PartialMaps :
        (/\ ret.op = "get_or_create"
         /\ ret.args = <<d, l>>
         /\ get_or_create(d, l))
        => /\ ret'.id = ret.id
           /\ ~ret'.created
           /\ Cardinality(DOMAIN entities') = Cardinality(DOMAIN entities)]_vars

\* C8 (as claimed): search returns nothing for an empty phrase, an empty field
\* list or a field list without any attribute of the model, and otherwise
\* exactly the rows with a valid named field that contains the phrase,
\* compared case-insensitively.
C8_SearchExact ==
    ret.op = "search" =>
        LET phrase == ret.args[1]
            fields == ret.args[2]
            valid  == {fields[k] : k \in 1..Len(fields)} \cap Fields
        IN  ret.data =
                IF phrase = "" \/ Len(fields) = 0 \/ valid = {} THEN {}
                ELSE {i \in DOMAIN entities :
                        \E f \in valid : /\ entities[i][f] # None
                                         /\ Contains(lower(entities[i][f]), lower(phrase))}

\* p occurs in k at some position
OccursIn(p, k) ==
    \E i \in 0..(Len(k) - Len(p)) : SubSeq(k, i + 1, i + Len(p)) = p

\* C12: clear_cache(pattern) with a string removes exactly the entries whose
\* key contains the pattern and leaves every other entry, data and timestamp,
\* as it was; clear_cache(None) removes every entry; both return normally,
\* also on an empty cache and when no key matches.
C12_ClearCacheExact ==
    [][\A p \in ClearPatterns :
        CacheMixin_clear_cache(p)
        => /\ ret'.op = "clear_cache"
           /\ IF p = None THEN repoCache' = EmptyCache
              ELSE /\ DOMAIN repoCache' = {k \in DOMAIN repoCache : ~OccursIn(p, k)}
                   /\ \A k \in DOMAIN repoCache' : repoCache'[k] = repoCache[k]]_vars

\* clear_cache("find_by") on a cache that held entries of find_by_name and of
\* get_all, some time after they were stored: only the get_all entry is left,
\* with the timestamp it had
C12_Witness ==
    /\ ret.op = "clear_cache"
    /\ ret.args = "find_by"
    /\ DOMAIN repoCache = {CacheMixin_cache_key("get_all", <<>>, <<>>)}
    /\ \A k \in DOMAIN repoCache : repoCache[k].ts < now

\* two calls that differ at most in the order their keyword arguments are written
SameCall(q, r) ==
    /\ q.method = r.method
    /\ q.args = r.args
    /\ Len(q.kwargs) = Len(r.kwargs)
    /\ {q.kwargs[i] : i \in 1..Len(q.kwargs)} = {r.kwargs[i] : i \in 1..Len(r.kwargs)}

\* C13: calls with the same method, the same positional arguments and the same
\* keyword arguments in any order get the same key, and share one entry: the
\* call that follows such a call inside the timeout is answered from the entry
\* the first one stored.
C13_KeyIgnoresKeywordOrder ==
    [][\A q \in Queries, r \in Queries :
        SameCall(q, r)
        => /\ CacheMixin_cache_key(q.method, q.args, q.kwargs)
                = CacheMixin_cache_key(r.method, r.args, r.kwargs)
           /\ (/\ ret.op = "cached_query"
               /\ ret.args = CacheMixin_cache_key(q.method, q.args, q.kwargs)
               /\ now - repoCache[ret.args].ts < CacheTimeout
               /\ ret' # ret
               /\ cached_query(r.method, r.args, r.kwargs, Fetch(r)))
              => /\ ret'.fetches = 0
                 /\ repoCache' = repoCache]_vars

\* find_by with two keyword arguments answered from the one entry of the pair
C13_Witness ==
    /\ ret.op = "cached_query"
    /\ ret.fetches = 0
    /\ ret.args = "Row:find_by:code=ab:name=Ba"
    /\ ret.data # {}

\* ------------------------------------------------------------------------
\* Properties of validation and of unknown ids
\* ------------------------------------------------------------------------
\* C15 (as claimed): the validation errors of a request come together in one
\* envelope: create_subtype, and update_subtype of an existing sub-type, with
\* a name that breaks the name rules and with a category id and a mine id
\* that have no row, list the name error, the missing category and the missing
\* mine; a bulk create lists the errors of every invalid item under the index
\* of the item.
C15_ErrorsCollected ==
    [][/\ \A n \in SubtypeNameInputs, c \in CategoryIds, m \in MineIds :
            (/\ Idle
             /\ FailsNameRules(n)
             /\ c \notin DOMAIN categories
             /\ m \notin DOMAIN mines
             /\ \/ create_subtype(n, c, m, FALSE)
                \/ \E i \in DOMAIN subtypes : update_subtype(i, n, c, m, FALSE))
            => /\ res'.kind = "validation"
               /\ \E e \in res'.errors : e.tag \in {"name_min_length", "name_max_length", "name_pattern"}
               /\ \E e \in res'.errors : e.tag = "category_missing" /\ e.id = c
               /\ \E e \in res'.errors : e.tag = "mine_missing" /\ e.id = m
       /\ \A p \in SubtypePayloads, k \in BOOLEAN :
            (Idle /\ bulk_create_subtypes(p, FALSE, k))
            => \A i \in 1..Len(p) :
                /\ FailsNameRules(p[i].name) => \E e \in res'.errors : e.item = i
                /\ p[i].category_id \notin DOMAIN categories =>
                    \E e \in res'.errors : e.item = i /\ e.tag = "category_missing"
                /\ p[i].mine_id \notin DOMAIN mines =>
                    \E e \in res'.errors : e.item = i /\ e.tag = "mine_missing"]_vars

\* ------------------------------------------------------------------------
\* Two workers on one store: create_subtype of one worker taken in its two
\* committed steps, the calls of the other worker in between
\* ------------------------------------------------------------------------
\* create_subtype.op up to and including _validate_relationships: the field
\* rules, then one get_by_id per parent
create_subtype_check(name, c, m) ==
    LET op  == "create_subtype"
        val == validate_subtype(name, c, m, 0)
        rel == validate_relationships(c, m, 0)
    IN  /\ inflight = NoCall
        /\ IF val # {} THEN res' = validation_error(op, val) /\ UNCHANGED inflight
           ELSE IF rel # {} THEN res' = validation_error(op, rel) /\ UNCHANGED inflight
           ELSE inflight' = SubRow(name, c, m) /\ UNCHANGED res
        /\ UNCHANGED <<categories, mines, subtypes, catCache, mineCache, subCache, now>>

\* an insert step that looks the parents up once more before it writes
create_subtype_insert_guarded(fk) ==
    LET op  == "create_subtype"
        rel == validate_relationships(inflight.category_id, inflight.mine_id, 0)
        out == subtype_create_with_validation(clean_whitespace(inflight.name),
                    inflight.category_id, inflight.mine_id)
        r   == IF rel # {} THEN validation_error(op, rel)
               ELSE safe_repository_operation(op, out.exc,
                        ok(op, out.id, inflight.category_id, inflight.mine_id, NoData))
    IN  /\ inflight # NoCall
        /\ r.success => out.id <= MaxSubtypes
        /\ subtypes' = IF r.success THEN out.tab ELSE subtypes
        /\ subCache' = subtype_hooks("after_create", r, subCache)
        /\ res' = r
        /\ inflight' = NoCall
        /\ UNCHANGED <<categories, mines, catCache, mineCache, now>>

\* the rest of create_subtype.op: repository.create_with_validation and the
\* envelope. The INSERT names its parents by foreign key: a store that
\* enforces foreign keys (fk) rejects a row whose parent is gone, a store that
\* does not takes it
create_subtype_insert(fk) ==
    LET op  == "create_subtype"
        c   == inflight.category_id
        m   == inflight.mine_id
        out == subtype_create_with_validation(clean_whitespace(inflight.name), c, m)
        exc == IF out.exc # "" THEN out.exc
               ELSE IF fk /\ (c \notin DOMAIN categories \/ m \notin DOMAIN mines)
                    THEN "IntegrityError"
               ELSE ""
        r   == safe_repository_operation(op, exc, ok(op, out.id, c, m, NoData))
    IN  /\ inflight # NoCall
        /\ r.success => out.id <= MaxSubtypes
        /\ subtypes' = IF r.success THEN out.tab ELSE subtypes
        /\ subCache' = subtype_hooks("after_create", r, subCache)
        /\ res' = r
        /\ inflight' = NoCall
        /\ UNCHANGED <<categories, mines, catCache, mineCache, now>>

InterleavedNames == {"ore", "or"}

CheckSubtype ==
    /\ Idle
    /\ \E n \in InterleavedNames, c \in CategoryIds, m \in MineIds :
        create_subtype_check(n, c, m)
    /\ UNCHANGED <<mixinVars, scenario, pending>>
InsertSubtype ==
    /\ Idle
    /\ \E fk \in BOOLEAN : create_subtype_insert(fk)
    /\ UNCHANGED <<mixinVars, scenario, pending>>
OtherWorker ==
    /\ Idle
    /\ \/ \E n \in CachedNames : create_category(n, FALSE)
       \/ \E n \in CachedNames : create_mine(n, FALSE)
       \/ \E i \in CategoryIds : delete_category(i, FALSE)
       \/ \E i \in MineIds : delete_mine(i, FALSE)
       \/ \E i \in SubtypeIds : delete_subtype(i, FALSE)
    /\ UNCHANGED <<mixinVars, inflight, scenario, pending>>

NextWorkers ==
    \/ CheckSubtype
    \/ InsertSubtype
    \/ OtherWorker
    \/ Deliver

SpecWorkers == Init /\ [][NextWorkers]_vars

\* C17: between the parent check and the insert of create_subtype nothing
\* stands guard: while the call is past its check of category c, a
\* delete_category(c) of a category without sub-types goes through; and the
\* insert step that follows is issued without another look at c: it ends in
\* the envelope of a stored row or in the store's own rejection, never in a
\* validation error.
C17_NoGuardBetweenCheckAndInsert ==
    [][/\ (/\ inflight # NoCall
           /\ Idle
           /\ inflight.category_id \in DOMAIN categories
           /\ CategorySubtypes(inflight.category_id) = {}
           /\ delete_category(inflight.category_id, FALSE))
          => /\ res'.success
             /\ inflight.category_id \notin DOMAIN categories'
             /\ inflight' = inflight
       /\ \A fk \in BOOLEAN :
            (/\ inflight # NoCall
             /\ Idle
             /\ inflight.category_id \notin DOMAIN categories
             /\ create_subtype_insert(fk))
            => /\ res'.kind # "validation"
               /\ res'.success \/ res'.cause \in {"IntegrityError", "DuplicateError"}
               /\ res'.success =>
                    \E s \in DOMAIN subtypes' \ DOMAIN subtypes :
                        subtypes'[s].category_id = inflight.category_id]_vars

\* create_subtype reported success for a row whose category was deleted
\* between its check and its insert
C17_Witness ==
    /\ res.op = "create_subtype"
    /\ res.success
    /\ res.cat \notin DOMAIN categories
    /\ \E s \in DOMAIN subtypes : subtypes[s].category_id = res.cat

\* ------------------------------------------------------------------------
\* Specification of the select lists: the sub-type select list and the
\* category with its sub-types, read through the caches of their services,
\* next to the writes of the three services, unknown ids and invalid names
\* included
\* ------------------------------------------------------------------------
SelectNames == {"ore", "or"}

GetSubtypesForSelect ==
    /\ Idle
    /\ get_subtypes_for_select(FALSE)
    /\ UNCHANGED <<mixinVars, inflight, scenario, pending>>
SelectCreate ==
    /\ Idle
    /\ \/ create_category("ore", FALSE)
       \/ create_mine("ore", FALSE)
       \/ \E n \in CachedNames : create_subtype(n, 1, 1, FALSE)
    /\ UNCHANGED <<mixinVars, inflight, scenario, pending>>
SelectUpdate ==
    /\ Idle
    /\ \/ \E i \in CategoryIds, n \in SelectNames : update_category(i, n, FALSE)
       \/ \E i \in MineIds, n \in SelectNames : update_mine(i, n, FALSE)
       \/ \E i \in SubtypeIds, n \in SelectNames : update_subtype(i, n, 1, 1, FALSE)
    /\ UNCHANGED <<mixinVars, inflight, scenario, pending>>
SelectDelete ==
    /\ Idle
    /\ \/ \E i \in CategoryIds : delete_category(i, FALSE)
       \/ \E i \in MineIds : delete_mine(i, FALSE)
       \/ \E i \in SubtypeIds : delete_subtype(i, FALSE)
    /\ UNCHANGED <<mixinVars, inflight, scenario, pending>>

NextSelect ==
    \/ GetSubtypesForSelect
    \/ GetCategoryWithSubtypes
    \/ GetCategory
    \/ SelectCreate
    \/ SelectUpdate
    \/ SelectDelete
    \/ Tick
    \/ Deliver

SpecSelect == Init /\ [][NextSelect]_vars

\* C11 (as claimed): once create_subtype has succeeded for category c, the
\* next get_subtypes_for_select and the next get_category_with_subtypes(c)
\* return data that holds the new sub-type, whatever was cached before.
C11_NewSubtypeVisible ==
    (res.op = "create_subtype" /\ res.success)
    => /\ \E it \in subtypes_for_select_read(FALSE).res.data.items : it[1] = res.id
       /\ category_with_subtypes_read(res.cat, FALSE).res.kind = "ok"
       /\ \E st \in category_with_subtypes_read(res.cat, FALSE).res.data.subtypes :
            st[1] = res.id

\* C20: update and delete of the three services, called with an id that has
\* no row, return an error envelope with the not-found code of the entity and
\* leave the three tables and the three caches as they were; for update this
\* holds whatever the name, valid or not.
C20_UnknownIdNotFound ==
    [][/\ \A i \in CategoryIds, n \in SelectNames :
            (/\ Idle
             /\ i \notin DOMAIN categories
             /\ update_category(i, n, FALSE) \/ delete_category(i, FALSE))
            => /\ res'.kind = "error" /\ ~res'.success
               /\ res'.error_code = "CATEGORY_NOT_FOUND"
               /\ UNCHANGED <<storeVars, cacheVars>>
       /\ \A i \in MineIds, n \in SelectNames :
            (/\ Idle
             /\ i \notin DOMAIN mines
             /\ update_mine(i, n, FALSE) \/ delete_mine(i, FALSE))
            => /\ res'.kind = "error" /\ ~res'.success
               /\ res'.error_code = "MINE_NOT_FOUND"
               /\ UNCHANGED <<storeVars, cacheVars>>
       /\ \A i \in SubtypeIds, n \in SelectNames :
            (/\ Idle
             /\ i \notin DOMAIN subtypes
             /\ update_subtype(i, n, 1, 1, FALSE) \/ delete_subtype(i, FALSE))
            => /\ res'.kind = "error" /\ ~res'.success
               /\ res'.error_code = "SUBTYPE_NOT_FOUND"
               /\ UNCHANGED <<storeVars, cacheVars>>]_vars

\* update_category of an id without a row was answered with the not-found
\* error while the category cache held an entry
C20_Witness ==
    /\ res.op = "update_category"
    /\ res.error_code = "CATEGORY_NOT_FOUND"
    /\ catCache # EmptyCache

\* C18 (as claimed): a cached read that follows a read with the same
\* arguments inside the TTL window, the entry of the first still in place,
\* does not call the repository and returns the stored value, whatever that
\* value is.
C18_SecondReadFromCache ==
    [][/\ \A i \in CachedCategoryIds :
            /\ (Idle /\ cache_valid(catCache, "category:" \o IdStr(i)) /\ get_category(i, FALSE))
               => /\ category_read(i, FALSE).fetched = 0
                  /\ res'.data = catCache["category:" \o IdStr(i)].data
            /\ (/\ Idle
                /\ cache_valid(catCache, "category_subtypes:" \o IdStr(i))
                /\ get_category_with_subtypes(i, FALSE))
               => /\ category_with_subtypes_read(i, FALSE).fetched = 0
                  /\ res'.data = catCache["category_subtypes:" \o IdStr(i)].data
       /\ \A i \in CachedMineIds :
            (Idle /\ cache_valid(mineCache, "mine:" \o IdStr(i)) /\ get_mine(i, FALSE))
            => /\ mine_read(i, FALSE).fetched = 0
               /\ res'.data = mineCache["mine:" \o IdStr(i)].data
       /\ (Idle /\ cache_valid(catCache, "categories_select") /\ get_categories_for_select(FALSE))
          => /\ categories_for_select_read(FALSE).fetched = 0
             /\ res'.data = catCache["categories_select"].data
       /\ (Idle /\ cache_valid(catCache, "category_stats") /\ get_category_statistics(FALSE))
          => /\ category_statistics_read(FALSE).fetched = 0
             /\ res'.data = catCache["category_stats"].data]_vars

\* ------------------------------------------------------------------------
\* ProductCategoryRepository: the queries under @cached_result, the writes of
\* BaseRepository and the hooks the repository registers
\* ------------------------------------------------------------------------
CategoryModelName == "ProductCategory"

\* _cache_key of the category repository
category_cache_key(method, args) ==
    Join(<<CategoryModelName, method>> \o [i \in 1..Len(args) |-> str(args[i])], ":")

\* hooks registered in ProductCategoryRepository.__init__, by event
RepositoryHooks ==
    [after_create  |-> "_log_creation",
     before_delete |-> "_check_subtypes_on_delete",
     after_update  |-> "_purge_related_cache"]

\* _purge_related_cache: clear_cache(pattern="category")
purge_related_cache(cache) ==
    [k \in {x \in DOMAIN cache : ~Contains(x, "category")} |-> cache[k]]

\* the repository cache after the hooks of an event have run
repository_hooks(event, cache) ==
    IF event \in DOMAIN RepositoryHooks /\ RepositoryHooks[event] = "_purge_related_cache"
    THEN purge_related_cache(cache)
    ELSE cache

\* a query under @cached_result(timeout): answered from the entry of its key
\* while the entry is younger than the timeout, else run and stored
cached_result(method, args, data, timeout) ==
    LET key == category_cache_key(method, args)
        hit == key \in DOMAIN repoCache /\ now - repoCache[key].ts < timeout
    IN  /\ ret' = Ret(method, key, 0, FALSE,
                      IF hit THEN repoCache[key].data ELSE data,
                      IF hit THEN 0 ELSE 1)
        /\ repoCache' = IF hit THEN repoCache
                        ELSE [k \in DOMAIN repoCache \cup {key} |->
                                IF k = key THEN [data |-> data, ts |-> now]
                                ELSE repoCache[k]]
        /\ UNCHANGED <<serviceVars, now, entities>>

\* a write of the repository: the statement, then the hooks of its event
repository_write(op, event, out) ==
    /\ categories' = out.tab
    /\ ret' = IF out.exc = "" /\ out.id # 0
              THEN Ret(op, <<>>, out.id, op = "create", {}, 0)
              ELSE Ret("raised", out.exc, 0, FALSE, {}, 0)
    /\ repoCache' = IF out.exc = "" /\ out.id # 0
                    THEN repository_hooks(event, repoCache)
                    ELSE repoCache
    /\ UNCHANGED <<mines, subtypes, res, catCache, mineCache, subCache, inflight, scenario, pending,
                   now, entities>>

FindByName ==
    \E n \in CachedNames :
        cached_result("find_by_name", <<StrArg(n)>>,
            {i \in DOMAIN categories : categories[i] = n}, CacheTimeout)
RepoCategoriesForSelect ==
    cached_result("get_categories_for_select", <<>>,
        {<<i, categories[i]>> : i \in DOMAIN categories}, CacheTimeout)
RepoCategoryStats ==
    cached_result("get_category_stats", <<>>,
        {<<"total_categories", Cardinality(DOMAIN categories)>>}, StatsTtl)
RowCreate ==
    \E n \in CachedNames :
        /\ NewId(categories) <= MaxCategories
        /\ repository_write("create", "after_create", create_with_validation(categories, n))
RowUpdate ==
    \E i \in CategoryIds, n \in CachedNames :
        repository_write("update", "after_update", update_with_validation(categories, i, n))
RowDelete ==
    \E i \in CategoryIds :
        repository_write("delete", "after_delete",
            delete_with_validation(categories, i, CategorySubtypes(i)))

NextRepository ==
    \/ FindByName
    \/ RepoCategoriesForSelect
    \/ RepoCategoryStats
    \/ RowCreate
    \/ RowUpdate
    \/ RowDelete

SpecRepository == Init /\ [][NextRepository]_vars

\* C19 (as claimed): right after a create, an update or a delete of a
\* category through the repository, the repository cache holds no entry of
\* the model, that is, no key that starts with the model name.
C19_WriteEvictsRepositoryCache ==
    ret.op \in {"create", "update", "delete"}
    => \A k \in DOMAIN repoCache :
        SubSeq(k, 1, Len(CategoryModelName) + 1) # CategoryModelName \o ":"

\* ------------------------------------------------------------------------
\* Listing with a search term: list_categories / list_mines / list_subtypes
\* ------------------------------------------------------------------------
MaxListRows == 3
MaxPage == 3
MaxPerPage == 3

\* the rows a query returns, in the order of their primary keys
RECURSIVE IdsInOrder(_)
IdsInOrder(S) ==
    IF S = {} THEN <<>>
    ELSE LET lo == CHOOSE x \in S : \A y \in S : x <= y
         IN  <<lo>> \o IdsInOrder(S \ {lo})

\* repository.search_by_name_pattern(pattern): search(pattern, ["name"]) on a
\* table given as id -> name
search_by_name_pattern(names, pattern) ==
    IF pattern = "" THEN <<>>
    ELSE IdsInOrder({i \in DOMAIN names : ilike(names[i], "%" \o pattern \o "%")})

\* Python matches[start:end] for 0 <= start <= end
Slice(matches, start, end) ==
    SubSeq(matches, start + 1, IF end < Len(matches) THEN end ELSE Len(matches))

\* a page whose has_next also holds on the last full page
page_of_matches_inclusive(matches, page, per_page, term) ==
    [kind |-> "page",
     items |-> Slice(matches, (page - 1) * per_page, page * per_page),
     total |-> Len(matches), page |-> page, per_page |-> per_page,
     pages |-> (Len(matches) + per_page - 1) \div per_page,
     has_next |-> page * per_page <= Len(matches),
     has_prev |-> page > 1,
     search_term |-> term]

\* the search branch of the list methods: the page cut out of the matches
page_of_matches(matches, page, per_page, term) ==
    LET start == (page - 1) * per_page
        end   == page * per_page
    IN  [kind |-> "page",
         items |-> Slice(matches, start, end),
         total |-> Len(matches), page |-> page, per_page |-> per_page,
         pages |-> (Len(matches) + per_page - 1) \div per_page,
         has_next |-> end < Len(matches),
         has_prev |-> page > 1,
         search_term |-> term]

\* the sub-types among the matches that pass the extra filters; a filter
\* value of 0 (or None) is left out
filter_matches(matches, category_id, mine_id) ==
    SelectSeq(matches, LAMBDA i :
        /\ category_id # 0 => subtypes[i].category_id = category_id
        /\ mine_id # 0 => subtypes[i].mine_id = mine_id)

\* the match list of each list method
category_matches(term) == search_by_name_pattern(categories, term)
mine_matches(term) == search_by_name_pattern(mines, term)
subtype_matches(term, category_id, mine_id) ==
    filter_matches(
        search_by_name_pattern([i \in DOMAIN subtypes |-> subtypes[i].name], term),
        category_id, mine_id)

\* list_X(page, per_page, search) with a search term
list_with_search(op, matches, page, per_page, term, fault) ==
    /\ res' = IF fault
              THEN Envelope(op, "error", FALSE, "LIST_FAILED", "OperationalError",
                            {}, 0, 0, 0, NoData)
              ELSE ok(op, 0, 0, 0, page_of_matches(matches, page, per_page, term))
    /\ UNCHANGED <<categories, mines, subtypes, catCache, mineCache, subCache, now>>

list_categories(page, per_page, term, fault) ==
    list_with_search("list_categories", category_matches(term), page, per_page, term, fault)

list_mines(page, per_page, term, fault) ==
    list_with_search("list_mines", mine_matches(term), page, per_page, term, fault)

list_subtypes(page, per_page, term, category_id, mine_id, fault) ==
    /\ list_with_search("list_subtypes", subtype_matches(term, category_id, mine_id),
            page, per_page, term, fault)
    /\ res'.success => res'.cat = 0

\* the tables listed: up to MaxListRows rows with different names
ListNames == {"ore", "Core", "bxt", "ORE"}
ListTables ==
    UNION {{t \in [1..n -> ListNames] : \A i, j \in 1..n : i # j => t[i] # t[j]}
           : n \in 0..MaxListRows}
SearchTerms == {"or", "b", "zz"}

\* the listed store: categories and mines by name, one sub-type per name,
\* each with parents that exist
InitList ==
    \E t \in ListTables :
        /\ categories = t
        /\ mines = t
        /\ subtypes = [i \in DOMAIN t |-> SubRow(t[i], IF i = 2 THEN 2 ELSE 1, 1)]
        /\ res = NoRes
        /\ catCache = EmptyCache
        /\ mineCache = EmptyCache
        /\ subCache = EmptyCache
        /\ now = 0
        /\ entities = EmptyTable
        /\ ret = NoRet
        /\ repoCache = EmptyCache
        /\ inflight = NoCall
        /\ scenario = NoScenario
        /\ pending = NoPending

ListCategories ==
    /\ Idle
    /\ \E a \in Faulty((1..MaxPage) \X (1..MaxPerPage) \X SearchTerms, <<1, 1, "or">>) :
        list_categories(a[1][1], a[1][2], a[1][3], a[2])
    /\ UNCHANGED <<mixinVars, inflight, scenario, pending>>
ListMines ==
    /\ Idle
    /\ \E a \in Faulty((1..MaxPage) \X (1..MaxPerPage) \X SearchTerms, <<1, 1, "or">>) :
        list_mines(a[1][1], a[1][2], a[1][3], a[2])
    /\ UNCHANGED <<mixinVars, inflight, scenario, pending>>
ListSubtypes ==
    /\ Idle
    /\ \E a \in Faulty((1..MaxPage) \X (1..MaxPerPage) \X SearchTerms, <<1, 1, "or">>),
          c \in 0..2 :
        list_subtypes(a[1][1], a[1][2], a[1][3], c, 0, a[2])
    /\ UNCHANGED <<mixinVars, inflight, scenario, pending>>

NextList ==
    \/ ListCategories
    \/ ListMines
    \/ ListSubtypes
    \/ Deliver

SpecList == InitList /\ [][NextList]_vars

\* the smallest number of pages of per_page rows that hold total rows
Ceil(total, per_page) ==
    CHOOSE p \in 0..total : p * per_page >= total /\ (p - 1) * per_page < total

\* the pages 1..n of a match list, one after the other
RECURSIVE PagesJoined(_, _, _)
PagesJoined(matches, per_page, n) ==
    IF n = 0 THEN <<>>
    ELSE PagesJoined(matches, per_page, n - 1)
         \o page_of_matches(matches, n, per_page, "").items

\* what C14 asks of a page of a match list
PageAsClaimed(d, matches) ==
    /\ Len(d.items) <= d.per_page
    /\ \A k \in 1..Len(d.items) : d.items[k] = matches[(d.page - 1) * d.per_page + k]
    /\ \A k \in 1..Len(matches) :
        ((d.page - 1) * d.per_page < k /\ k <= d.page * d.per_page) =>
            k - (d.page - 1) * d.per_page \in 1..Len(d.items)
    /\ d.total = Len(matches)
    /\ d.pages = Ceil(d.total, d.per_page)
    /\ d.has_next <=> d.page * d.per_page < d.total
    /\ d.has_prev <=> d.page > 1
    /\ PagesJoined(matches, d.per_page, d.pages) = matches
    /\ \A q \in 1..d.pages :
        page_of_matches(matches, q, d.per_page, "").has_next <=> q < d.pages

\* C14: a listing with a search term returns the slice
\* [(page-1)*per_page, page*per_page) of the full match list, total = the
\* number of matches, pages = ceil(total / per_page), has_next iff
\* page*per_page < total, has_prev iff page > 1; the pages 1..pages joined
\* give every match once and in order, and has_next holds on the pages before
\* the last only.
C14_SearchPagination ==
    /\ (res.op = "list_categories" /\ res.success)
       => PageAsClaimed(res.data, category_matches(res.data.search_term))
    /\ (res.op = "list_mines" /\ res.success)
       => PageAsClaimed(res.data, mine_matches(res.data.search_term))
    /\ (res.op = "list_subtypes" /\ res.success)
       => \E c \in 0..2 :
            PageAsClaimed(res.data, subtype_matches(res.data.search_term, c, 0))

\* page 2 of three matches, two to a page: one item, nothing after it
C14_Witness ==
    /\ res.op = "list_categories"
    /\ res.success
    /\ res.data.total = 3
    /\ res.data.page = 2
    /\ res.data.per_page = 2
    /\ Len(res.data.items) = 1
    /\ res.data.pages = 2
    /\ ~res.data.has_next
    /\ res.data.has_prev

\* ------------------------------------------------------------------------
\* ProductionScenario.validate and its partner allocations
\* ------------------------------------------------------------------------
\* percentages are counted in thousandths of a percent: the 100 of
\* percentage > 100 and of abs(total_percentage - 100)
Hundred == 100000
\* the 0.01 of abs(total_percentage - 100) > 0.01
Tolerance == 10
MaxPartners == 2
ScenarioNameMax == 200

\* a JSON value of an allocation field: a number, NaN, or not a number
Number(v) == [kind |-> "number", val |-> v]
NotANumber == [kind |-> "nan", val |-> 0]
Text == [kind |-> "string", val |-> 0]
\* isinstance(v, (int, float))
IsNumeric(v) == v.kind \in {"number", "nan"}
\* v < bound and v > bound; every comparison with NaN is false
Below(v, bound) == v.kind = "number" /\ v.val < bound
Above(v, bound) == v.kind = "number" /\ v.val > bound

PercentageValues ==
    {Number(v) : v \in {0 - 50000, 0, 49995, 50000, 50005, 50020, 100000, 150000}}
        \cup {NotANumber, Text}
VolumeValues == {Number(0 - 1), Number(0), Text}

\* the value of one partner: an object with percentage and volume (a key left
\* out reads as 0), or something that is no object
AllocationObject(p, v) == [kind |-> "object", percentage |-> p, volume |-> v]
AllocationScalar == [kind |-> "scalar", percentage |-> Number(0), volume |-> Number(0)]
AllocationValues ==
    {AllocationObject(p, v) : p \in PercentageValues, v \in VolumeValues}
        \cup {AllocationScalar}

\* what partner_allocation_json holds: nothing, text that is no JSON, JSON that
\* is no object, or an object whose items are the partners in their order
Allocations(items) == [kind |-> "object", items |-> items]
AllocationData ==
    {NoAllocations, [kind |-> "invalid", items |-> <<>>], [kind |-> "other", items |-> <<>>]}
        \cup UNION {{Allocations(items) : items \in [1..n -> AllocationValues]}
                    : n \in 0..MaxPartners}

ValidationError(code, partner) == [code |-> code, partner |-> partner]

\* total_percentage += percentage
AddPercentage(total, p) ==
    IF total.kind = "nan" \/ p.kind = "nan" THEN NotANumber
    ELSE Number(total.val + p.val)

\* a loop that adds to the total the percentages within range only
RECURSIVE allocation_loop_in_range(_, _, _)
allocation_loop_in_range(items, k, acc) ==
    IF k > Len(items) \/ acc.raised THEN acc
    ELSE LET a == items[k]
         IN  IF a.kind # "object"
             THEN allocation_loop_in_range(items, k + 1,
                    [acc EXCEPT !.errors = @ \cup {ValidationError("allocation_not_object", k)}])
             ELSE LET bad == \/ ~IsNumeric(a.percentage)
                             \/ Below(a.percentage, 0)
                             \/ Above(a.percentage, Hundred)
                  IN  allocation_loop_in_range(items, k + 1,
                        [errors |-> acc.errors
                                      \cup (IF bad THEN {ValidationError("invalid_percentage", k)} ELSE {})
                                      \cup (IF ~IsNumeric(a.volume) \/ Below(a.volume, 0)
                                            THEN {ValidationError("invalid_volume", k)} ELSE {}),
                         total |-> IF bad THEN acc.total ELSE AddPercentage(acc.total, a.percentage),
                         raised |-> FALSE])

\* the for loop of _validate_partner_allocations from partner k on: the errors
\* so far, the running total, and whether the addition raised
RECURSIVE allocation_loop(_, _, _)
allocation_loop(items, k, acc) ==
    IF k > Len(items) \/ acc.raised THEN acc
    ELSE LET a == items[k]
         IN  IF a.kind # "object"
             THEN allocation_loop(items, k + 1,
                    [acc EXCEPT !.errors = @ \cup {ValidationError("allocation_not_object", k)}])
             ELSE allocation_loop(items, k + 1,
                    [errors |-> acc.errors
                                  \cup (IF \/ ~IsNumeric(a.percentage)
                                           \/ Below(a.percentage, 0)
                                           \/ Above(a.percentage, Hundred)
                                        THEN {ValidationError("invalid_percentage", k)} ELSE {})
                                  \cup (IF ~IsNumeric(a.volume) \/ Below(a.volume, 0)
                                        THEN {ValidationError("invalid_volume", k)} ELSE {}),
                     total |-> IF IsNumeric(a.percentage)
                               THEN AddPercentage(acc.total, a.percentage)
                               ELSE acc.total,
                     raised |-> ~IsNumeric(a.percentage)])

\* abs(total_percentage - 100) > 0.01 in floating point: false for NaN, and
\* decided by the rounding of the sum when the distance is 0.01 itself
FarFromHundred(total, rounded_up) ==
    /\ total.kind = "number"
    /\ LET d == IF total.val >= Hundred THEN total.val - Hundred ELSE Hundred - total.val
       IN  d > Tolerance \/ (d = Tolerance /\ rounded_up)

validate_partner_allocations(data, rounded_up) ==
    IF data.kind = "invalid" THEN {ValidationError("invalid_json", 0)}
    ELSE IF data.kind # "object" THEN {ValidationError("not_a_json_object", 0)}
    ELSE LET acc == allocation_loop(data.items, 1,
                        [errors |-> {}, total |-> Number(0), raised |-> FALSE])
         IN  IF acc.raised
             THEN acc.errors \cup {ValidationError("validation_raised", 0)}
             ELSE acc.errors
                    \cup (IF FarFromHundred(acc.total, rounded_up)
                          THEN {ValidationError("total_allocation", 0)} ELSE {})

AllocationErrorCodes ==
    {"invalid_json", "not_a_json_object", "validation_raised", "total_allocation",
     "allocation_not_object", "invalid_percentage", "invalid_volume"}

\* a scenario of the year 2020 with valid dates, volume and moisture, not a
\* baseline
Scenario(name, data) ==
    ProductionScenario(name, YearMin, 1, 2, 1, 3, data, FALSE, 0)

\* validate() in the year current_year: the name, date, year, volume and
\* moisture rules, the allocation rules when allocation data is present, and
\* the baseline rule
validate(s, current_year, rounded_up) ==
    (IF strip(s.name) = "" THEN {ValidationError("name_required", 0)} ELSE {})
        \cup (IF Len(s.name) > ScenarioNameMax
              THEN {ValidationError("name_too_long", 0)} ELSE {})
        \cup (IF s.start_date >= s.end_date
              THEN {ValidationError("date_range", 0)} ELSE {})
        \cup (IF s.contractual_year < YearMin
                    \/ s.contractual_year > current_year + YearsAhead
              THEN {ValidationError("contractual_year", 0)} ELSE {})
        \cup (IF s.production_volume <= 0
              THEN {ValidationError("volume_not_positive", 0)} ELSE {})
        \cup (IF s.production_volume > VolumeMax
              THEN {ValidationError("volume_too_high", 0)} ELSE {})
        \cup (IF s.moisture_percentage < 0 \/ s.moisture_percentage > MoistureMax
              THEN {ValidationError("moisture", 0)} ELSE {})
        \cup (IF s.partner_allocation_json.kind # "none"
              THEN validate_partner_allocations(s.partner_allocation_json, rounded_up)
              ELSE {})
        \cup (IF s.is_baseline /\ s.parent_scenario_id # 0
              THEN {ValidationError("baseline_with_parent", 0)} ELSE {})

\* datetime.now().year at the time of the call
CurrentYears == {2020, 2021}

ScenarioNames == {" ", "Plan"}

NewScenario ==
    /\ scenario = NoScenario
    /\ \E n \in ScenarioNames, d \in AllocationData : scenario' = Scenario(n, d)
    /\ UNCHANGED <<categories, mines, subtypes, res, catCache, mineCache, subCache, now,
                   mixinVars, inflight, pending>>

Validate ==
    /\ scenario # NoScenario
    /\ \E current_year \in CurrentYears, rounded_up \in BOOLEAN :
        scenario' = [scenario EXCEPT !.validated = TRUE,
                                     !.errors = validate(scenario, current_year, rounded_up)]
    /\ UNCHANGED <<categories, mines, subtypes, res, catCache, mineCache, subCache, now,
                   mixinVars, inflight, pending>>

NextScenario ==
    \/ NewScenario
    \/ Validate

SpecScenario == Init /\ [][NextScenario]_vars

\* the sum of the percentages of the partners whose allocation is an object
RECURSIVE SumOfPercentages(_)
SumOfPercentages(items) ==
    IF items = <<>> THEN 0
    ELSE (IF Head(items).kind = "object" THEN Head(items).percentage.val ELSE 0)
            + SumOfPercentages(Tail(items))

\* every percentage given is a number
PercentagesAreNumbers(items) ==
    \A k \in 1..Len(items) :
        items[k].kind = "object" => items[k].percentage.kind = "number"

\* C16: with partner allocation data present, validate() reports the
\* total-allocation error when the percentages sum to something further than
\* 0.01 from 100, and reports no allocation error when every allocation is an
\* object with a percentage in [0, 100], a volume >= 0 and the percentages sum
\* to 100.
C16_AllocationsSumToHundred ==
    LET data == scenario.partner_allocation_json
        sum  == SumOfPercentages(data.items)
    IN  (scenario.validated /\ data.kind = "object" /\ PercentagesAreNumbers(data.items)) =>
            /\ (sum - Hundred > Tolerance \/ Hundred - sum > Tolerance)
                => ValidationError("total_allocation", 0) \in scenario.errors
            /\ (/\ sum = Hundred
                /\ \A k \in 1..Len(data.items) :
                    /\ data.items[k].kind = "object"
                    /\ data.items[k].percentage.val \in 0..Hundred
                    /\ data.items[k].volume.kind = "number"
                    /\ data.items[k].volume.val >= 0)
                => \A e \in scenario.errors : e.code \notin AllocationErrorCodes

\* two partners whose percentages are in range and sum to 100.015: the total
\* is reported
C16_Witness ==
    /\ scenario.validated
    /\ scenario.partner_allocation_json.kind = "object"
    /\ Len(scenario.partner_allocation_json.items) = 2
    /\ scenario.partner_allocation_json.items[1].percentage = Number(49995)
    /\ scenario.partner_allocation_json.items[2].percentage = Number(50020)
    /\ ValidationError("total_allocation", 0) \in scenario.errors

\* ------------------------------------------------------------------------
\* Updates of rows in a store that already holds rows
\* ------------------------------------------------------------------------
UpdateIds == 1..MaxListRows
UpdateNames == {"ore", " ore", "bxt", "or"}

RenameCategory ==
    /\ Idle
    /\ \E a \in Faulty(UpdateIds \X UpdateNames, <<1, "ore">>) :
        update_category(a[1][1], a[1][2], a[2])
    /\ UNCHANGED <<mixinVars, inflight, scenario, pending>>
RenameMine ==
    /\ Idle
    /\ \E a \in Faulty(UpdateIds \X UpdateNames, <<1, "ore">>) :
        update_mine(a[1][1], a[1][2], a[2])
    /\ UNCHANGED <<mixinVars, inflight, scenario, pending>>
ChangeSubtype ==
    /\ Idle
    /\ \E a \in Faulty(UpdateIds \X {"ore", "bxt"} \X (1..2) \X {1}, <<1, "ore", 1, 1>>) :
        update_subtype(a[1][1], a[1][2], a[1][3], a[1][4], a[2])
    /\ UNCHANGED <<mixinVars, inflight, scenario, pending>>

NextUpdate ==
    \/ RenameCategory
    \/ RenameMine
    \/ ChangeSubtype
    \/ Deliver

\* the store before the updates: two categories, two mines, two sub-types
InitUpdate ==
    /\ InitList
    /\ categories = <<"ore", "Core">>

SpecUpdate == InitUpdate /\ [][NextUpdate]_vars

\* some row other than id holds the key
HeldByOther(tab, id, key) == \E j \in DOMAIN tab : j # id /\ tab[j] = key

\* what C21 asks of an update of row id to key, given the table before and
\* after it and the envelope returned
UpdateAsClaimed(tab, tabAfter, id, key, envelope) ==
    IF HeldByOther(tab, id, key)
    THEN ~envelope.success /\ envelope.kind # "raised" /\ UNCHANGED storeVars
    ELSE envelope.success /\ tabAfter = [tab EXCEPT ![id] = key]

\* C21: an update of an existing row with a valid payload succeeds when the
\* new name (the new name+category+mine of a sub-type) is the row's own or is
\* held by no other row, and fails with a failure envelope, every row
\* unchanged, exactly when another row already holds it.
C21_UpdateExcludesSelf ==
    [][/\ \A i \in UpdateIds, n \in UpdateNames :
            (/\ Idle
             /\ i \in DOMAIN categories
             /\ validate_name(n, 0) = {}
             /\ update_category(i, n, FALSE))
            => UpdateAsClaimed(categories, categories', i, clean_whitespace(n), res')
       /\ \A i \in UpdateIds, n \in UpdateNames :
            (/\ Idle
             /\ i \in DOMAIN mines
             /\ validate_name(n, 0) = {}
             /\ update_mine(i, n, FALSE))
            => UpdateAsClaimed(mines, mines', i, clean_whitespace(n), res')
       /\ \A i \in UpdateIds, n \in UpdateNames, c \in 1..2, m \in {1} :
            (/\ Idle
             /\ i \in DOMAIN subtypes
             /\ c \in DOMAIN categories
             /\ m \in DOMAIN mines
             /\ validate_name(n, 0) = {}
             /\ update_subtype(i, n, c, m, FALSE))
            => UpdateAsClaimed(subtypes, subtypes', i,
                    SubRow(clean_whitespace(n), c, m), res')]_vars

\* a category was renamed to the name it already had, with another row in
\* the table, and the update succeeded
C21_Witness ==
    /\ res.op = "update_category"
    /\ res.success
    /\ Cardinality(DOMAIN categories) >= 2
    /\ res.id \in DOMAIN categories
    /\ categories[res.id] = "ore"
    /\ \E j \in DOMAIN categories : j # res.id /\ categories[j] = "Core"

\* C22: deleting an existing mine that has a sub-type is refused (integrity
\* error on the service path, error flash on the settings-hub path) and
\* changes neither the mine nor any sub-type; with no sub-type the mine is
\* removed; on delete_mine and on mine_delete alike.
C22_DeleteMineGuarded ==
    [][\A i \in MineIds :
        (/\ Idle
         /\ i \in DOMAIN mines
         /\ delete_mine(i, FALSE) \/ mine_delete(i, FALSE))
        => IF MineSubtypes(i) # {}
           THEN /\ ~res'.success
                /\ res'.op = "delete_mine" => res'.cause = "IntegrityError"
                /\ res'.op = "mine_delete" => res'.kind = "flash"
                /\ mines' = mines
                /\ subtypes' = subtypes
           ELSE /\ res'.success
                /\ mines' = Remove(mines, i)
                /\ subtypes' = subtypes]_vars

\* a delete of a mine with a sub-type was refused on the settings-hub path
C22_Witness ==
    /\ res.op = "mine_delete"
    /\ res.kind = "flash"
    /\ ~res.success
    /\ res.cause = "has_subtypes"
    /\ \E s \in DOMAIN subtypes : subtypes[s].mine_id \in DOMAIN mines

\* ------------------------------------------------------------------------
\* SettingsController: the edit forms of the settings hub
\* ------------------------------------------------------------------------
CategoryFormNameMax == 50
MineFormNameMax == 100

\* ProductCategoryForm / MineForm: DataRequired, Length(max) and then the
\* form's validate_name, which looks the submitted name up in the table
form_errors(tab, name, max) ==
    IF strip(name) = "" THEN {Err("name_required", 0, 0)}
    ELSE (IF Len(name) > max THEN {Err("name_max_length", 0, 0)} ELSE {})
         \cup (IF \E j \in DOMAIN tab : tab[j] = name
               THEN {Err("name_exists", 0, 0)} ELSE {})

\* category_edit / mine_edit of a submitted form: 404 without the row, the
\* form page again when validation fails, else the row is written and
\* committed; the description is written along with the name and is not a
\* column of the tables here
hub_edit(op, tab, id, name, max, fault) ==
    IF id \notin DOMAIN tab THEN Envelope(op, "http404", FALSE, "", "", {}, 0, 0, 0, NoData)
    ELSE IF form_errors(tab, name, max) # {}
    THEN Envelope(op, "form", FALSE, "", "", form_errors(tab, name, max), id, 0, 0, NoData)
    ELSE IF fault THEN flash(op, "error", "OperationalError")
    ELSE [flash(op, "success", "") EXCEPT !.id = id]

category_edit(id, name, description, fault) ==
    LET r == hub_edit("category_edit", categories, id, name, CategoryFormNameMax, fault)
    IN  /\ categories' = IF r.success THEN [categories EXCEPT ![id] = name] ELSE categories
        /\ res' = r
        /\ UNCHANGED <<mines, subtypes, catCache, mineCache, subCache, now>>

mine_edit(id, name, description, fault) ==
    LET r == hub_edit("mine_edit", mines, id, name, MineFormNameMax, fault)
    IN  /\ mines' = IF r.success THEN [mines EXCEPT ![id] = name] ELSE mines
        /\ res' = r
        /\ UNCHANGED <<categories, subtypes, catCache, mineCache, subCache, now>>

EditNames == {"ore", "bxt", ""}
EditDescriptions == {"", "washed"}

HubCategoryEdit ==
    /\ Idle
    /\ \E a \in Faulty(UpdateIds \X EditNames \X EditDescriptions, <<1, "bxt", "">>) :
        category_edit(a[1][1], a[1][2], a[1][3], a[2])
    /\ UNCHANGED <<mixinVars, inflight, scenario, pending>>
HubMineEdit ==
    /\ Idle
    /\ \E a \in Faulty(UpdateIds \X EditNames \X EditDescriptions, <<1, "bxt", "">>) :
        mine_edit(a[1][1], a[1][2], a[1][3], a[2])
    /\ UNCHANGED <<mixinVars, inflight, scenario, pending>>

NextHub ==
    \/ HubCategoryEdit
    \/ HubMineEdit
    \/ Deliver

SpecHub == InitUpdate /\ [][NextHub]_vars

\* C23 (as claimed): the edit form of an existing category or mine, submitted
\* with the row's own name and a changed description, passes form validation
\* and the update is committed.
C23_EditKeepsName ==
    [][\A i \in UpdateIds :
        /\ (/\ Idle
            /\ i \in DOMAIN categories
            /\ category_edit(i, categories[i], "washed", FALSE))
           => (res'.kind = "flash" /\ res'.success)
        /\ (/\ Idle
            /\ i \in DOMAIN mines
            /\ mine_edit(i, mines[i], "washed", FALSE))
           => (res'.kind = "flash" /\ res'.success)]_vars

\* C24: in every state reached by creates, updates, bulk creates and deletes
\* of the three services, one operation at a time, every sub-type row names
\* an existing category and an existing mine.
C24_ReferentialIntegrity ==
    \A s \in DOMAIN subtypes :
        /\ subtypes[s].category_id \in DOMAIN categories
        /\ subtypes[s].mine_id \in DOMAIN mines

\* a sub-type was moved to the second category while another sub-type exists
C24_Witness ==
    /\ res.op = "update_subtype"
    /\ res.success
    /\ res.cat = 2
    /\ Cardinality(DOMAIN subtypes) = 2
    /\ Cardinality(DOMAIN categories) = 2

\* ------------------------------------------------------------------------
\* Two workers on one category service: a call is taken in its steps, the
\* steps of the other worker's call in between
\* ------------------------------------------------------------------------
Step(op, pc, id, name, data, out) ==
    [op |-> op, pc |-> pc, id |-> id, name |-> name, data |-> data, out |-> out]
SetStep(w, step) == [pending EXCEPT ![w] = step]

\* get_category -> _cached_entity up to and including fetch_fn(): a valid
\* entry ends the call, a missing row ends it, else the row has been read
get_category_fetch(w, id) ==
    LET op  == "get_category"
        key == "category:" \o IdStr(id)
    IN  /\ pending[w].pc = "idle"
        /\ pending' = SetStep(w,
                IF Truthy(cache_get(catCache, key))
                THEN Step(op, "done", id, "", NoData, ok(op, 0, 0, 0, cache_get(catCache, key)))
                ELSE IF id \notin DOMAIN categories
                THEN Step(op, "done", id, "", NoData, error(op, "CATEGORY_NOT_FOUND"))
                ELSE Step(op, "fetched", id, "", EntityDto(categories, id), NoRes))
        /\ UNCHANGED <<categories, mines, subtypes, res, catCache, mineCache, subCache, now>>

\* the rest of _cached_entity: _cache_set of what was fetched, and the envelope
get_category_store(w) ==
    LET op == "get_category"
        c  == pending[w]
    IN  /\ c.op = op
        /\ c.pc = "fetched"
        /\ catCache' = cache_set(catCache, "category:" \o IdStr(c.id), c.data, EntityTtl)
        /\ pending' = SetStep(w, Step(op, "done", c.id, "", c.data, ok(op, 0, 0, 0, c.data)))
        /\ UNCHANGED <<categories, mines, subtypes, res, mineCache, subCache, now>>

\* update_category.op: the lookups, the field rules and the committed write
update_category_write(w, id, name) ==
    LET op  == "update_category"
        val == validate_name(name, 0)
        out == update_with_validation(categories, id, clean_whitespace(name))
        r   == IF id \notin DOMAIN categories THEN error(op, "CATEGORY_NOT_FOUND")
               ELSE IF val # {} THEN validation_error(op, val)
               ELSE safe_repository_operation(op, out.exc, ok(op, id, 0, 0, NoData))
    IN  /\ pending[w].pc = "idle"
        /\ categories' = IF r.success THEN out.tab ELSE categories
        /\ pending' = SetStep(w, Step(op, "written", id, name, NoData, r))
        /\ UNCHANGED <<mines, subtypes, res, catCache, mineCache, subCache, now>>

\* the after_update hook of update_category: _after_change clears the keys
update_category_after_change(w) ==
    LET c == pending[w]
    IN  /\ c.op = "update_category"
        /\ c.pc = "written"
        /\ catCache' = category_hooks("after_update", c.out, catCache)
        /\ pending' = SetStep(w, [c EXCEPT !.pc = "done"])
        /\ UNCHANGED <<categories, mines, subtypes, res, mineCache, subCache, now>>

\* the worker hands the envelope to its caller
return(w) ==
    /\ pending[w].pc = "done"
    /\ pending' = SetStep(w, NoStep)
    /\ UNCHANGED <<categories, mines, subtypes, res, catCache, mineCache, subCache, now>>

InterleavedIds == 1..2
RenameInputs == {"bxt", "or"}

ReadFetch ==
    /\ \E w \in Workers, i \in InterleavedIds : get_category_fetch(w, i)
    /\ UNCHANGED <<mixinVars, inflight, scenario>>
ReadStore ==
    /\ \E w \in Workers : get_category_store(w)
    /\ UNCHANGED <<mixinVars, inflight, scenario>>
WriteRow ==
    /\ \E w \in Workers, i \in InterleavedIds, n \in RenameInputs :
        update_category_write(w, i, n)
    /\ UNCHANGED <<mixinVars, inflight, scenario>>
WriteInvalidate ==
    /\ \E w \in Workers : update_category_after_change(w)
    /\ UNCHANGED <<mixinVars, inflight, scenario>>
Return ==
    /\ \E w \in Workers : return(w)
    /\ UNCHANGED <<mixinVars, inflight, scenario>>

NextReadWrite ==
    \/ ReadFetch
    \/ ReadStore
    \/ WriteRow
    \/ WriteInvalidate
    \/ Return

SpecReadWrite == InitUpdate /\ [][NextReadWrite]_vars

\* C25 (as claimed): once a get_category(i) and an update_category(i, n) that
\* ran interleaved have both finished, the cache holds no valid entry for
\* category:i with the data from before the update.
C25_NoStaleEntryAfterBoth ==
    \A i \in InterleavedIds, r \in Workers, w \in Workers :
        (/\ pending[r].op = "get_category"
         /\ pending[r].pc = "done"
         /\ pending[r].id = i
         /\ pending[w].op = "update_category"
         /\ pending[w].pc = "done"
         /\ pending[w].id = i
         /\ pending[w].out.success)
        => ~(/\ cache_valid(catCache, "category:" \o IdStr(i))
             /\ catCache["category:" \o IdStr(i)].data.row # categories[i])

\* ------------------------------------------------------------------------
\* Two workers creating rows: create_category / create_mine taken in the two
\* steps of create_with_validation, the name check and the insert
\* ------------------------------------------------------------------------
NamedServices == {"category", "mine"}
TableOf(svc) == IF svc = "category" THEN categories ELSE mines

\* create_X.op up to and including name_exists in create_with_validation
create_check(w, svc, name) ==
    LET op  == "create_" \o svc
        val == validate_name(name, 0)
        nm  == strip(clean_whitespace(name))
    IN  /\ pending[w].pc = "idle"
        /\ pending' = SetStep(w,
                IF val # {} THEN Step(op, "done", 0, nm, NoData, validation_error(op, val))
                ELSE IF name_exists(TableOf(svc), nm, 0)
                THEN Step(op, "done", 0, nm, NoData,
                          safe_repository_operation(op, "DuplicateError", NoRes))
                ELSE Step(op, "checked", 0, nm, NoData, NoRes))
        /\ UNCHANGED <<categories, mines, subtypes, res, catCache, mineCache, subCache, now>>

\* the rest: self.create(name=name) against the table and its unique
\* constraint, the after_create hook and the envelope
create_insert(w, svc) ==
    LET op  == "create_" \o svc
        c   == pending[w]
        out == repo_create(TableOf(svc), c.name)
        r   == safe_repository_operation(op, out.exc, ok(op, out.id, 0, 0, NoData))
    IN  /\ c.op = op
        /\ c.pc = "checked"
        /\ r.success => out.id <= MaxListRows
        /\ IF svc = "category"
           THEN /\ categories' = out.tab
                /\ catCache' = category_hooks("after_create", r, catCache)
                /\ UNCHANGED <<mines, mineCache>>
           ELSE /\ mines' = out.tab
                /\ mineCache' = mine_hooks("after_create", r, mineCache)
                /\ UNCHANGED <<categories, catCache>>
        /\ pending' = SetStep(w, Step(op, "done", out.id, c.name, NoData, r))
        /\ UNCHANGED <<subtypes, res, subCache, now>>

CreateInputs == {"ore", " ore", "bxt"}

CreateCheck ==
    /\ \E w \in Workers, svc \in NamedServices, n \in CreateInputs : create_check(w, svc, n)
    /\ UNCHANGED <<mixinVars, inflight, scenario>>
CreateInsert ==
    /\ \E w \in Workers, svc \in NamedServices : create_insert(w, svc)
    /\ UNCHANGED <<mixinVars, inflight, scenario>>

NextCreate ==
    \/ CreateCheck
    \/ CreateInsert
    \/ Return

SpecCreate == Init /\ [][NextCreate]_vars

\* both workers have finished a create of the same service and cleaned name
BothCreated(svc, nm) ==
    \A w \in Workers :
        /\ pending[w].op = "create_" \o svc
        /\ pending[w].pc = "done"
        /\ pending[w].name = nm

\* C26: of two interleaved create_category (create_mine) calls with the same
\* cleaned name, at most one row with that name exists at the end, at most
\* one call reports success, and the other returns an envelope with
\* success = false instead of raising.
C26_OneOfTwoCreatesWins ==
    /\ NoDuplicateRows(categories)
    /\ NoDuplicateRows(mines)
    /\ \A svc \in NamedServices, nm \in {"ore", "bxt"} :
        BothCreated(svc, nm) =>
            /\ ~(pending[1].out.success /\ pending[2].out.success)
            /\ \A w \in Workers :
                /\ pending[w].out.kind \in {"ok", "error", "validation"}
                /\ ~pending[w].out.success => pending[w].out.kind = "error"

\* both calls passed the name check before either inserted: one stored the
\* row, the other was rejected by the store
C26_Witness ==
    /\ BothCreated("category", "ore")
    /\ pending[1].out.cause = "IntegrityError"
    /\ pending[2].out.success
    /\ \E i \in DOMAIN categories : categories[i] = "ore"

\* a payload of cleaned keys that names one key twice
RepeatsKey(keys) == \E i, j \in 1..Len(keys) : i < j /\ keys[i] = keys[j]
CleanNames(p) == [i \in 1..Len(p) |-> clean_whitespace(p[i])]
CleanRows(p) ==
    [i \in 1..Len(p) |-> SubRow(clean_whitespace(p[i].name), p[i].category_id, p[i].mine_id)]

\* the table after the call holds all keys of the payload or is the table
\* before the call
AllOrNone(tab, tabAfter, keys) ==
    \/ tabAfter = tab
    \/ \A i \in 1..Len(keys) : keys[i] \in Rows(tabAfter)

\* C27 (as claimed): a bulk create whose payload names the same natural key
\* twice, none of its keys in the store yet, inserts no row and reports a
\* failure; after any bulk create the store holds all items of the payload or
\* none of them, and natural keys stay unique.
C27_BulkAllOrNone ==
    [][/\ \A p \in NamePayloads, k \in BOOLEAN :
            /\ (Idle /\ bulk_create_categories(p, FALSE, k))
               => /\ AllOrNone(categories, categories', CleanNames(p))
                  /\ NoDuplicateRows(categories')
                  /\ (/\ RepeatsKey(CleanNames(p))
                      /\ \A i \in 1..Len(p) : CleanNames(p)[i] \notin Rows(categories))
                     => (categories' = categories /\ ~res'.success)
            /\ (Idle /\ bulk_create_mines(p, FALSE, k))
               => /\ AllOrNone(mines, mines', CleanNames(p))
                  /\ NoDuplicateRows(mines')
                  /\ (/\ RepeatsKey(CleanNames(p))
                      /\ \A i \in 1..Len(p) : CleanNames(p)[i] \notin Rows(mines))
                     => (mines' = mines /\ ~res'.success)
       /\ \A p \in SubtypePayloads, k \in BOOLEAN :
            (Idle /\ bulk_create_subtypes(p, FALSE, k))
            => /\ AllOrNone(subtypes, subtypes', CleanRows(p))
               /\ NoDuplicateRows(subtypes')
               /\ (/\ RepeatsKey(CleanRows(p))
                   /\ \A i \in 1..Len(p) : CleanRows(p)[i] \notin Rows(subtypes))
                  => (subtypes' = subtypes /\ ~res'.success)]_vars


\* ------------------------------------------------------------------------
\* Single-entity reads of an id that has no row: the five reads, the writes
\* that make and remove the row, and the clock
\* ------------------------------------------------------------------------
mine_with_subtypes_read(id, fault) ==
    cached_entity("get_mine_with_subtypes", mineCache,
        "mine_subtypes:" \o IdStr(id), id \in DOMAIN mines,
        WithSubtypesDto(mines, id, MineSubtypes(id)),
        WithSubtypesTtl, fault, "MINE_NOT_FOUND")

subtype_read(id, fault) ==
    cached_entity("get_subtype", subCache, "subtype:" \o IdStr(id),
        id \in DOMAIN subtypes, EntityDto(subtypes, id),
        EntityTtl, fault, "SUBTYPE_NOT_FOUND")

\* MineService.get_mine_with_subtypes: written out in the method like get_mine
get_mine_with_subtypes(id, fault) ==
    LET out == mine_with_subtypes_read(id, fault)
    IN  /\ res' = out.res
        /\ mineCache' = out.cache
        /\ UNCHANGED <<categories, mines, subtypes, catCache, subCache, now>>

get_subtype(id, fault) ==
    LET out == subtype_read(id, fault)
    IN  /\ res' = out.res
        /\ subCache' = out.cache
        /\ UNCHANGED <<categories, mines, subtypes, catCache, mineCache, now>>

ReadIds == {1}

GetMineWithSubtypes ==
    /\ Idle
    /\ \E a \in Faulty(ReadIds, 1) : get_mine_with_subtypes(a[1], a[2])
    /\ UNCHANGED <<mixinVars, inflight, scenario, pending>>
GetSubtype ==
    /\ Idle
    /\ \E a \in Faulty(ReadIds, 1) : get_subtype(a[1], a[2])
    /\ UNCHANGED <<mixinVars, inflight, scenario, pending>>
MakeRow ==
    /\ Idle
    /\ \/ create_category("ore", FALSE)
       \/ create_mine("ore", FALSE)
       \/ create_subtype("ore", 1, 1, FALSE)
    /\ UNCHANGED <<mixinVars, inflight, scenario, pending>>
RemoveRow ==
    /\ Idle
    /\ \E i \in ReadIds :
        \/ delete_category(i, FALSE)
        \/ delete_mine(i, FALSE)
        \/ delete_subtype(i, FALSE)
    /\ UNCHANGED <<mixinVars, inflight, scenario, pending>>

NextNotFound ==
    \/ GetCategory
    \/ GetCategoryWithSubtypes
    \/ GetMine
    \/ GetMineWithSubtypes
    \/ GetSubtype
    \/ MakeRow
    \/ RemoveRow
    \/ Tick
    \/ Deliver

SpecNotFound == Init /\ [][NextNotFound]_vars

\* a read whose key has no entry that _cache_get would serve: without a row
\* it answers with the not-found envelope and leaves the cache as it was,
\* with a row it answers with the row as the store holds it
FetchedAnswer(key, before, after, found, dto, code) ==
    ~Truthy(cache_get(before, key)) =>
        IF found
        THEN res'.success /\ res'.data = dto
        ELSE /\ res'.kind = "error"
             /\ res'.error_code = code
             /\ after = before

\* an entry that is served after a step and was not served before it was
\* stored by a successful read, and holds what that read returned
ServedOnlyAfterRead(cache) ==
    \A key \in DOMAIN cache' :
        (Truthy(cache_get(cache, key))' /\ ~Truthy(cache_get(cache, key)))
            => Idle /\ res'.success /\ res'.data = cache'[key].data

\* C28: negative results are not cached: a single-entity read whose fetch
\* finds no row returns the not-found envelope and stores nothing; no step
\* other than a successful read makes an entry served; so a read of an id
\* made after the not-found answer returns the entity, whatever the TTL
C28_NegativeNotCached ==
    [][/\ \A i \in ReadIds :
            /\ (Idle /\ get_category(i, FALSE)) =>
                    FetchedAnswer("category:" \o IdStr(i), catCache, catCache',
                        i \in DOMAIN categories, EntityDto(categories, i),
                        "CATEGORY_NOT_FOUND")
            /\ (Idle /\ get_category_with_subtypes(i, FALSE)) =>
                    FetchedAnswer("category_subtypes:" \o IdStr(i), catCache, catCache',
                        i \in DOMAIN categories,
                        WithSubtypesDto(categories, i, CategorySubtypes(i)),
                        "CATEGORY_NOT_FOUND")
            /\ (Idle /\ get_mine(i, FALSE)) =>
                    FetchedAnswer("mine:" \o IdStr(i), mineCache, mineCache',
                        i \in DOMAIN mines, EntityDto(mines, i), "MINE_NOT_FOUND")
            /\ (Idle /\ get_mine_with_subtypes(i, FALSE)) =>
                    FetchedAnswer("mine_subtypes:" \o IdStr(i), mineCache, mineCache',
                        i \in DOMAIN mines,
                        WithSubtypesDto(mines, i, MineSubtypes(i)), "MINE_NOT_FOUND")
            /\ (Idle /\ get_subtype(i, FALSE)) =>
                    FetchedAnswer("subtype:" \o IdStr(i), subCache, subCache',
                        i \in DOMAIN subtypes, EntityDto(subtypes, i),
                        "SUBTYPE_NOT_FOUND")
       /\ ServedOnlyAfterRead(catCache)
       /\ ServedOnlyAfterRead(mineCache)
       /\ ServedOnlyAfterRead(subCache)]_vars

\* a read has answered not found at a later time than the start, nothing is
\* in the caches, and the rows have since been made
C28_Witness ==
    /\ now > 0
    /\ res.op = "get_subtype"
    /\ res.error_code = "SUBTYPE_NOT_FOUND"
    /\ subCache = EmptyCache
    /\ DOMAIN categories = {1}
    /\ DOMAIN mines = {1}


\* ------------------------------------------------------------------------
\* ProductionScenario.validate() against the check constraints of the table
\* ------------------------------------------------------------------------
\* __table_args__: the four check constraints
table_args(s) ==
    /\ s.production_volume > 0
    /\ s.moisture_percentage >= 0 /\ s.moisture_percentage <= MoistureMax
    /\ s.start_date <= s.end_date
    /\ s.contractual_year >= YearMin /\ s.contractual_year <= YearMax

ContractualYears == {YearMin - 1, YearMin, YearMax, YearMax + 1}
Dates == 1..2
Volumes == {0, 1, VolumeMax, VolumeMax + 1}
Moistures == {0 - 1, 0, MoistureMax, MoistureMax + 1}
ParentIds == 0..1

NewScenarioFields ==
    /\ scenario = NoScenario
    /\ \E y \in ContractualYears, s \in Dates, e \in Dates, v \in Volumes,
          m \in Moistures, b \in BOOLEAN, p \in ParentIds :
        scenario' = ProductionScenario("Plan", y, s, e, v, m, NoAllocations, b, p)
    /\ UNCHANGED <<categories, mines, subtypes, res, catCache, mineCache, subCache, now,
                   mixinVars, inflight, pending>>

NextConstraints ==
    \/ NewScenarioFields
    \/ Validate

SpecConstraints == Init /\ [][NextConstraints]_vars

\* C29: validate() is at least as strict as the check constraints: a scenario
\* for which validate() returned no error satisfies production_volume > 0,
\* 0 <= moisture_percentage <= 100, start_date <= end_date and
\* 2020 <= contractual_year <= 2050, in every current year
C29_ValidateImpliesConstraints ==
    (scenario.validated /\ scenario.errors = {}) => table_args(scenario)


\* ------------------------------------------------------------------------
\* Keys of the CacheMixin: calls of one repository whose arguments contain
\* the separators the key is built with
\* ------------------------------------------------------------------------
\* calls of a method find(*args, **kwargs) and of get_by_id(id)
KeyQueries ==
    {[method |-> "get_all", args |-> <<>>, kwargs |-> <<>>],
     [method |-> "find", args |-> <<StrArg("ab"), StrArg("Ba")>>, kwargs |-> <<>>],
     [method |-> "find", args |-> <<StrArg("ab:Ba")>>, kwargs |-> <<>>],
     [method |-> "find", args |-> <<StrArg("code=ab")>>, kwargs |-> <<>>],
     [method |-> "find", args |-> <<>>, kwargs |-> << <<"code", "ab">> >>],
     [method |-> "get_by_id", args |-> <<IntArg(1)>>, kwargs |-> <<>>],
     [method |-> "get_by_id", args |-> <<StrArg("1")>>, kwargs |-> <<>>]}

\* what func(*args, **kwargs) returns from the table: get_by_id compares the
\* id with its argument, find compares the columns name and code with the
\* positional arguments in this order and the named columns with the keyword
\* arguments
KeyFetch(q) ==
    IF q.method = "get_all" THEN DOMAIN entities
    ELSE IF q.method = "get_by_id"
    THEN {i \in DOMAIN entities : q.args[1] = IntArg(i)}
    ELSE {i \in DOMAIN entities :
            /\ Len(q.args) >= 1 => entities[i].name = str(q.args[1])
            /\ Len(q.args) >= 2 => entities[i].code = str(q.args[2])
            /\ \A k \in DOMAIN KwMap(q.kwargs) : entities[i][k] = KwValue(q.kwargs, k)}

KeyedQuery ==
    \E q \in KeyQueries : cached_query(q.method, q.args, q.kwargs, KeyFetch(q))

NextKeys ==
    \/ KeyedQuery
    \/ RepoCreate

SpecKeys == Init /\ [][NextKeys]_vars

\* two calls differ in the method name, in the positional arguments or in
\* the keyword arguments taken as a mapping
CallsDiffer(q1, q2) ==
    \/ q1.method # q2.method
    \/ q1.args # q2.args
    \/ DOMAIN KwMap(q1.kwargs) # DOMAIN KwMap(q2.kwargs)
    \/ \E k \in DOMAIN KwMap(q1.kwargs) : KwValue(q1.kwargs, k) # KwValue(q2.kwargs, k)

\* C30: cache keys do not collide: the key under which cached_query stored
\* the result of a call is not the key of a call that differs from it in the
\* method name, the positional arguments or the keyword arguments
C30_KeysDoNotCollide ==
    \A q1 \in KeyQueries, q2 \in KeyQueries :
        (/\ CallsDiffer(q1, q2)
         /\ CacheMixin_cache_key(q1.method, q1.args, q1.kwargs) \in DOMAIN repoCache)
        => CacheMixin_cache_key(q2.method, q2.args, q2.kwargs)
              # CacheMixin_cache_key(q1.method, q1.args, q1.kwargs)

====
